---- MODULE Spec2Model ----
(***************************************************************************)
(* gemini-budget: the AI Inbox (Proposals page), its ProposalCard, the     *)
(* HTTP client wrapper with the connection settings, the Dashboard totals, *)
(* the Pricing page, the debounced search and the create/edit forms of the *)
(* Accounts, Merchants and Transactions pages, and the proposal-           *)
(* confirmation endpoint the inbox talks to.  The browser side is modelled *)
(* from the TypeScript sources; the REST backend is not part of the        *)
(* sources and is modelled from the reconciliation state machine of the    *)
(* specification.                                                          *)
(***************************************************************************)
EXTENDS Integers, Sequences, FiniteSets, TLC

(***************************************************************************)
(* Bounds of the model.                                                    *)
(***************************************************************************)
MaxDocs == 2        \* documents that are ever uploaded (one proposal each)
MaxInFlight == 2    \* fetchData() and confirmProposal() calls in flight at once
MaxFailures == 1    \* failed re-fetches in a behaviour of the liveness specification
MaxTx == 2          \* transactions in a proposal's transactions array
MaxOutbox == 1      \* confirm requests of one card awaiting the network
MaxRequests == 1    \* calls of fetch() by the wrapper awaiting the network
MaxHeaders == 2     \* entries of the headers a caller passes to the wrapper
MaxAccounts == 3    \* accounts on the dashboard
MaxBalance == 2     \* balances are integers in -MaxBalance..MaxBalance
MaxRefreshes == 2   \* handleRefresh calls of the Pricing page in flight at once
MaxReloads == 1     \* fetchData() calls of the Pricing page's own in flight at once
MaxSearches == 2    \* fetchData() calls of a search page in flight at once
TickMs == 100       \* the step of the clock, in milliseconds
MaxSubmits == 2     \* create/update requests of a form page in flight at once
MaxRefetches == 1   \* fetchData() calls made by handleSubmit in flight at once
MaxEditsInFlight == 1   \* changes of formData while a submit is in flight

Docs == 1..MaxDocs
Props == Docs
FetchSlots == 1..MaxInFlight
ConfirmSlots == 1..MaxInFlight

(***************************************************************************)
(* Enumerations of frontend/types.ts.                                      *)
(***************************************************************************)
DocumentStatus == {"UPLOADED", "PARSING", "PROCESSED", "ERROR"}
ProposalChangeType == {"CREATE_NEW", "UPDATE_EXISTING", "CREATE_ACCOUNT"}
ProposalStatus == {"PENDING", "APPROVED", "REJECTED"}

Null == "null"
Undefined == "undefined"
Idle == [phase |-> "idle"]
TxIds == {"t1", "t2"}       \* transactions already in the ledger
EditedToken == "edited"     \* the sanitized card data, as the page sees it
Categories == <<"c1">>      \* the category rows of the store (never changed here)

VARIABLES
    \* ---- backend (REST store) ----
    dstatus,      \* [Docs -> DocumentStatus \cup {"NONE"}]
    pstatus,      \* [Props -> ProposalStatus \cup {"NONE"}]
    pchange,      \* [Props -> [change_type, target_transaction_id]]
    ledger,       \* [Props -> Seq(mutation)]: ledger mutations caused by a proposal
    \* ---- Proposals page (React state) ----
    mounted,
    proposals,    \* displayed pending queue: Seq of ProposedChange
    documents,    \* Seq of [id, status]
    accounts,     \* Seq of account ids
    categories,   \* Seq of category ids
    loading,
    uploading,
    interval,     \* TRUE while the setInterval timer of the effect is armed
    \* ---- requests in flight ----
    fetches,      \* [FetchSlots -> Idle or the four GETs of one fetchData()]
    confirms,     \* [ConfirmSlots -> Idle or one confirmProposal() call]
    upload,       \* the uploadDocument() call
    byTimer,      \* ghost: the latest fetchData() was called by the interval callback
    failures,     \* failed re-fetches so far (counted by the liveness specification)
    \* ---- the HTTP client wrapper ----
    storage,      \* localStorage: the two settings keys
    request,      \* the calls of fetch() made by fetcher, oldest first
    outcome,      \* how the answered calls of fetcher ended, oldest first
    \* ---- one ProposalCard ----
    card,         \* its props: the proposal's change_type and proposed_data
    isEditing,
    editedData,
    lastEdit,     \* ghost: the value each input last received, "none" if untouched
    outbox,       \* bodies of the card's confirm requests not yet taken by the network
    \* ---- the other pages ----
    dashboard,    \* Dashboard state: accounts (their balances), loading, error
    pricing,      \* Pricing page state and its handleRefresh calls in flight
    search,       \* a page with a debounced search: term, timer, requests, list
    form          \* a page with a create/edit modal: the form, flags, requests

inboxVars == <<dstatus, pstatus, pchange, ledger, mounted, proposals, documents,
               accounts, categories, loading, uploading, interval, fetches, confirms, upload,
               byTimer, failures>>

cardVars == <<card, isEditing, editedData, lastEdit, outbox>>

fetcherVars == <<storage, request, outcome>>

otherVars == <<dashboard, pricing, search, form>>

vars == <<inboxVars, cardVars, fetcherVars, otherVars>>

\* Each specification below runs one part of the program; the others stay parked.
Parked == UNCHANGED <<cardVars, fetcherVars, otherVars>>

CardParked ==
    /\ card = [change_type |-> "CREATE_NEW"]
    /\ isEditing = FALSE
    /\ editedData = <<>>
    /\ lastEdit = <<>>
    /\ outbox = <<>>

DashboardParked == dashboard = <<>>
PricingParked == pricing = <<>>
SearchParked == search = <<>>
FormParked == form = <<>>

OthersParked ==
    /\ DashboardParked /\ PricingParked /\ SearchParked /\ FormParked

FetcherParked ==
    /\ storage = <<>>
    /\ request = <<>>
    /\ outcome = <<>>

(***************************************************************************)
(* Backend views: what GET /proposals/, /documents/, /accounts/ return.    *)
(***************************************************************************)
RECURSIVE Ascending(_, _)
Ascending(n, S) ==      \* the members of S within 1..n, in ascending order
    IF n = 0 THEN <<>>
    ELSE IF n \in S THEN Append(Ascending(n - 1, S), n) ELSE Ascending(n - 1, S)

ProposalRow(p) ==
    [id |-> p, status |-> pstatus[p]]

getProposals ==
    LET ids == Ascending(MaxDocs, {p \in Props : pstatus[p] # "NONE"})
    IN [i \in 1..Len(ids) |-> ProposalRow(ids[i])]

getDocuments ==
    LET ids == Ascending(MaxDocs, {d \in Docs : dstatus[d] # "NONE"})
    IN [i \in 1..Len(ids) |-> [id |-> ids[i], status |-> dstatus[ids[i]]]]

HasOp(p, op) == \E i \in 1..Len(ledger[p]) : ledger[p][i].op = op

getAccounts == Ascending(MaxDocs, {p \in Props : HasOp(p, "insert_account")})

(***************************************************************************)
(* apiService.confirmProposal: the JSON payload of POST /proposals/id/confirm *)
(***************************************************************************)
Truthy(data) == data # Undefined

confirmProposal(id, status, data) ==
    [phase |-> "sent", live |-> TRUE, id |-> id, status |-> status,
     edited_data |-> IF Truthy(data) THEN data ELSE Undefined]

\* handleConfirm and handleReject up to their await: the call each makes.
handleConfirmCall(id, data) == confirmProposal(id, "APPROVED", data)

handleRejectCall_Pending(id) ==             \* mutant: asks for the wrong status
    confirmProposal(id, "PENDING", Undefined)

handleRejectCall_WithData(id) ==            \* mutant: sends the card data along
    confirmProposal(id, "REJECTED", EditedToken)

handleRejectCall(id) == confirmProposal(id, "REJECTED", Undefined)

RemoveProposal_Head(prev, id) ==             \* mutant: drops the first row
    IF prev = <<>> THEN prev ELSE Tail(prev)

\* setProposals(prev => prev.filter(p => p.id !== id))
RemoveProposal(prev, id) == SelectSeq(prev, LAMBDA p : p.id # id)

PendingOnly_All(props) == props              \* mutant: no filter

\* setProposals(props.filter(p => p.status === ProposalStatus.PENDING))
PendingOnly(props) == SelectSeq(props, LAMBDA p : p.status = "PENDING")

(***************************************************************************)
(* Proposals page: isProcessing and the auto-refresh effect.               *)
(***************************************************************************)
isProcessing(docs) ==
    \E i \in 1..Len(docs) : docs[i].status \in {"PARSING", "UPLOADED"}

AutoRefreshEffect_NoArm(prevDocs, nextDocs, armed) ==      \* mutant: never arms
    IF isProcessing(nextDocs) = isProcessing(prevDocs) THEN armed ELSE FALSE

AutoRefreshEffect_NoCleanup(prevDocs, nextDocs, armed) ==  \* mutant: no clearInterval
    armed \/ isProcessing(nextDocs)

\* The effect has deps [isProcessing, fetchData]; fetchData is stable, so after a
\* render it runs only when isProcessing changed: the cleanup of the previous run
\* clears the timer, and a new one is armed when isProcessing is true.
AutoRefreshEffect(prevDocs, nextDocs, armed) ==
    IF isProcessing(nextDocs) = isProcessing(prevDocs) THEN armed
    ELSE isProcessing(nextDocs)

FreeFetch == {i \in FetchSlots : fetches[i].phase = "idle"}
FreeConfirm == {i \in ConfirmSlots : confirms[i].phase = "idle"}
InFlight == (MaxInFlight - Cardinality(FreeFetch)) + (MaxInFlight - Cardinality(FreeConfirm))
Lowest(S) == CHOOSE i \in S : \A j \in S : i <= j

NewFetch == [phase |-> "sent"]

\* fetchData() up to its await: setLoading(true) and the four GETs leave.
fetchData ==
    /\ InFlight < MaxInFlight
    /\ fetches' = [fetches EXCEPT ![Lowest(FreeFetch)] = NewFetch]
    /\ loading' = TRUE

backendVars == <<dstatus, pstatus, pchange, ledger>>
pageData == <<proposals, documents, accounts, categories>>

TypeOK ==
    /\ dstatus \in [Docs -> DocumentStatus \cup {"NONE"}]
    /\ pstatus \in [Props -> ProposalStatus \cup {"NONE"}]
    /\ mounted \in BOOLEAN /\ loading \in BOOLEAN /\ uploading \in BOOLEAN
    /\ interval \in BOOLEAN /\ byTimer \in BOOLEAN
    /\ failures \in 0..MaxFailures
    /\ upload \in {"idle", "sent", "ok", "failed", "orphan"}

InitPage ==
    /\ CardParked /\ FetcherParked /\ OthersParked
    /\ mounted = TRUE
    /\ proposals = <<>> /\ documents = <<>> /\ accounts = <<>> /\ categories = <<>>
    /\ loading = TRUE
    /\ uploading = FALSE
    /\ interval = FALSE
    /\ fetches = [i \in FetchSlots |-> IF i = 1 THEN NewFetch ELSE Idle]
    /\ confirms = [i \in ConfirmSlots |-> Idle]
    /\ upload = "idle"
    /\ byTimer = FALSE
    /\ failures = 0

Targets(ct) == IF ct = "UPDATE_EXISTING" THEN TxIds ELSE {Null}

Changes ==
    {[change_type |-> ct, target_transaction_id |-> t] :
        ct \in ProposalChangeType, t \in TxIds \cup {Null}}

\* The page is opened on an empty store: documents arrive by upload.
InitPolling ==
    /\ dstatus = [d \in Docs |-> "NONE"]
    /\ pstatus = [p \in Props |-> "NONE"]
    /\ pchange = [p \in Props |-> [change_type |-> "NONE", target_transaction_id |-> Null]]
    /\ ledger = [p \in Props |-> <<>>]
    /\ InitPage

\* The page is opened on a store whose documents are processed, each with a
\* pending proposal of any change type.
InitReconcile ==
    /\ dstatus = [d \in Docs |-> "PROCESSED"]
    /\ pstatus = [p \in Props |-> "PENDING"]
    /\ pchange \in [Props -> Changes]
    /\ \A p \in Props : pchange[p].target_transaction_id \in Targets(pchange[p].change_type)
    /\ ledger = [p \in Props |-> <<>>]
    /\ InitPage

(***************************************************************************)
(* REST backend.  Its code is not among the sources: the endpoints below   *)
(* follow the reconciliation state machine of the specification.           *)
(***************************************************************************)
NextDoc == Lowest({d \in Docs : dstatus[d] = "NONE"})

\* POST /documents/upload stores the file as a document in status UPLOADED.
BackendUpload ==
    /\ upload \in {"sent", "orphan"}
    /\ dstatus' = [dstatus EXCEPT ![NextDoc] = "UPLOADED"]
    /\ upload' = IF upload = "sent" THEN "ok" ELSE "idle"
    /\ UNCHANGED <<pstatus, pchange, ledger, mounted, pageData, loading, uploading,
                   interval, fetches, confirms, byTimer, failures>>
    /\ Parked

\* The extraction pipeline picks the document up ...
BackendParse(d) ==
    /\ dstatus[d] = "UPLOADED"
    /\ dstatus' = [dstatus EXCEPT ![d] = "PARSING"]
    /\ UNCHANGED <<pstatus, pchange, ledger, mounted, pageData, loading, uploading,
                   interval, fetches, confirms, upload, byTimer, failures>>
    /\ Parked

\* ... and ends with a pending proposal of one of the three change types ...
BackendProcessed(d, ct, target) ==
    /\ dstatus[d] = "PARSING"
    /\ (ct = "UPDATE_EXISTING") = (target # Null)
    /\ dstatus' = [dstatus EXCEPT ![d] = "PROCESSED"]
    /\ pstatus' = [pstatus EXCEPT ![d] = "PENDING"]
    /\ pchange' = [pchange EXCEPT ![d] = [change_type |-> ct,
                                          target_transaction_id |-> target]]
    /\ UNCHANGED <<ledger, mounted, pageData, loading, uploading,
                   interval, fetches, confirms, upload, byTimer, failures>>
    /\ Parked

\* ... or with an error.
BackendError(d) ==
    /\ dstatus[d] = "PARSING"
    /\ dstatus' = [dstatus EXCEPT ![d] = "ERROR"]
    /\ UNCHANGED <<pstatus, pchange, ledger, mounted, pageData, loading, uploading,
                   interval, fetches, confirms, upload, byTimer, failures>>
    /\ Parked

\* The GETs of one fetchData() are answered from the rows as they are at one
\* instant between the call and its continuation.
ServeGets(i) ==
    /\ fetches[i].phase = "sent"
    /\ fetches' = [fetches EXCEPT ![i] =
          [phase |-> "served", proposals |-> getProposals, documents |-> getDocuments,
           accounts |-> getAccounts]]
    /\ UNCHANGED <<backendVars, mounted, pageData, loading, uploading, interval,
                   confirms, upload, byTimer, failures>>
    /\ Parked

ApplyApproval_AlwaysInsert(p, data) ==      \* mutant: an update inserts a new row
    <<[op |-> "insert_tx", tx |-> Null, data |-> data]>>

\* The ledger mutation of an approval, by change type.
ApplyApproval(p, data) ==
    LET c == pchange[p]
    IN CASE c.change_type = "UPDATE_EXISTING" ->
              <<[op |-> "patch_tx", tx |-> c.target_transaction_id, data |-> data]>>
         [] c.change_type = "CREATE_ACCOUNT" ->
              <<[op |-> "insert_account", tx |-> Null, data |-> data],
                [op |-> "insert_tx", tx |-> Null, data |-> data]>>
         [] OTHER ->
              <<[op |-> "insert_tx", tx |-> Null, data |-> data]>>

ConfirmAccepted_Repeatable(p, status) ==     \* mutant: no check of the current status
    /\ pstatus[p] # "NONE"
    /\ status \in {"APPROVED", "REJECTED"}

\* Whether POST /proposals/{id}/confirm accepts the request: only a proposal
\* that is still PENDING can be confirmed, and only to APPROVED or REJECTED.
ConfirmAccepted(p, status) ==
    /\ pstatus[p] = "PENDING"
    /\ status \in {"APPROVED", "REJECTED"}

Answered(c, phase) ==
    IF c.live THEN [c EXCEPT !.phase = phase] ELSE Idle

ServeConfirm(i) ==
    LET c == confirms[i]
    IN /\ c.phase = "sent"
       /\ IF ConfirmAccepted(c.id, c.status)
          THEN /\ pstatus' = [pstatus EXCEPT ![c.id] = c.status]
               /\ ledger' = [ledger EXCEPT ![c.id] =
                      IF c.status = "APPROVED"
                      THEN @ \o ApplyApproval(c.id, c.edited_data) ELSE @]
               /\ confirms' = [confirms EXCEPT ![i] = Answered(c, "ok")]
          ELSE /\ UNCHANGED <<pstatus, ledger>>
               /\ confirms' = [confirms EXCEPT ![i] = Answered(c, "rejected")]
       /\ UNCHANGED <<dstatus, pchange, mounted, pageData, loading, uploading, interval,
                      fetches, upload, byTimer, failures>>
       /\ Parked

(***************************************************************************)
(* Proposals page: event handlers and promise continuations.               *)
(***************************************************************************)
\* The setInterval callback: fetchData().
Tick ==
    /\ mounted /\ interval
    /\ fetchData
    /\ byTimer' = TRUE
    /\ UNCHANGED <<backendVars, mounted, pageData, uploading, interval, confirms,
                   upload, failures>>
    /\ Parked

\* The refresh button: onClick={fetchData}.
Refresh ==
    /\ mounted
    /\ fetchData
    /\ byTimer' = FALSE
    /\ UNCHANGED <<backendVars, mounted, pageData, uploading, interval, confirms,
                   upload, failures>>
    /\ Parked

\* fetchData after Promise.all resolved: the four setters, then setLoading(false);
\* the render that follows runs the auto-refresh effect.
FetchResolve(i) ==
    LET f == fetches[i]
    IN /\ f.phase = "served"
       /\ proposals' = PendingOnly(f.proposals)
       /\ documents' = f.documents
       /\ accounts' = f.accounts
       /\ categories' = Categories
       /\ loading' = FALSE
       /\ interval' = AutoRefreshEffect(documents, f.documents, interval)
       /\ fetches' = [fetches EXCEPT ![i] = Idle]
       /\ UNCHANGED <<backendVars, mounted, uploading, confirms, upload, byTimer, failures>>
       /\ Parked

FetchCatch_Stops(i) ==                      \* mutant: a failure clears the timer
    /\ fetches[i].phase = "sent"
    /\ loading' = FALSE
    /\ interval' = FALSE
    /\ fetches' = [fetches EXCEPT ![i] = Idle]
    /\ UNCHANGED <<backendVars, mounted, pageData, uploading, confirms, upload, byTimer>>
    /\ Parked

\* fetchData when one of the four GETs threw: console.error, setLoading(false).
\* A GET changes nothing on the backend, so a fetch that fails after it was
\* answered is a fetch that fails before.
FetchCatch(i) ==
    /\ fetches[i].phase = "sent"
    /\ loading' = FALSE
    /\ fetches' = [fetches EXCEPT ![i] = Idle]
    /\ UNCHANGED <<backendVars, mounted, pageData, uploading, interval, confirms,
                   upload, byTimer>>
    /\ Parked

FetchThrow(i) == FetchCatch(i) /\ UNCHANGED failures

\* handleFileUpload up to its await (the upload button is disabled while uploading).
UploadClick ==
    /\ mounted /\ ~uploading /\ upload = "idle"
    /\ \E d \in Docs : dstatus[d] = "NONE"
    /\ uploading' = TRUE
    /\ upload' = "sent"
    /\ UNCHANGED <<backendVars, mounted, pageData, loading, interval, fetches,
                   confirms, byTimer, failures>>
    /\ Parked

UploadResolve_NoFetch ==                    \* mutant: no fetchData() after the upload
    /\ upload = "ok"
    /\ uploading' = FALSE
    /\ upload' = "idle"
    /\ UNCHANGED <<backendVars, mounted, pageData, loading, interval, fetches,
                   confirms, byTimer, failures>>
    /\ Parked

\* handleFileUpload after uploadDocument resolved: fetchData(), setUploading(false).
UploadResolve ==
    /\ upload = "ok"
    /\ fetchData
    /\ uploading' = FALSE
    /\ upload' = "idle"
    /\ byTimer' = FALSE
    /\ UNCHANGED <<backendVars, mounted, pageData, interval, confirms, failures>>
    /\ Parked

\* The document is stored and the answer is lost on its way: fetch rejects.
UploadLost ==
    /\ upload = "ok"
    /\ upload' = "failed"
    /\ UNCHANGED <<backendVars, mounted, pageData, loading, uploading, interval, fetches,
                   confirms, byTimer, failures>>
    /\ Parked

\* handleFileUpload when uploadDocument threw (the request was refused or lost,
\* or its answer was): alert, setUploading(false).
UploadThrow ==
    /\ upload \in {"sent", "failed"}
    /\ uploading' = FALSE
    /\ upload' = "idle"
    /\ UNCHANGED <<backendVars, mounted, pageData, loading, interval, fetches,
                   confirms, byTimer, failures>>
    /\ Parked

Displayed(p) == \E k \in 1..Len(proposals) : proposals[k].id = p

\* The card's Approve button: handleConfirmAction -> onConfirm -> handleConfirm.
ApproveClick(p) ==
    /\ mounted /\ Displayed(p) /\ InFlight < MaxInFlight
    /\ confirms' = [confirms EXCEPT ![Lowest(FreeConfirm)] =
                       handleConfirmCall(p, EditedToken)]
    /\ UNCHANGED <<backendVars, mounted, pageData, loading, uploading, interval,
                   fetches, upload, byTimer, failures>>
    /\ Parked

\* The card's Discard button: onReject -> handleReject.
RejectClick(p) ==
    /\ mounted /\ Displayed(p) /\ InFlight < MaxInFlight
    /\ confirms' = [confirms EXCEPT ![Lowest(FreeConfirm)] = handleRejectCall(p)]
    /\ UNCHANGED <<backendVars, mounted, pageData, loading, uploading, interval,
                   fetches, upload, byTimer, failures>>
    /\ Parked

\* handleConfirm / handleReject after confirmProposal resolved.
ConfirmResolve(i) ==
    /\ confirms[i].phase = "ok"
    /\ proposals' = RemoveProposal(proposals, confirms[i].id)
    /\ confirms' = [confirms EXCEPT ![i] = Idle]
    /\ UNCHANGED <<backendVars, mounted, documents, accounts, categories, loading,
                   uploading, interval, fetches, upload, byTimer, failures>>
    /\ Parked

\* The network fails before the request reaches the backend, or after the backend
\* acted and before its answer arrives: fetch rejects.
ConfirmLost(i) ==
    /\ confirms[i].phase \in {"sent", "ok"}
    /\ confirms[i].live
    /\ confirms' = [confirms EXCEPT ![i].phase = "failed"]
    /\ UNCHANGED <<backendVars, mounted, pageData, loading, uploading, interval,
                   fetches, upload, byTimer, failures>>
    /\ Parked

\* handleConfirm / handleReject when confirmProposal threw (an HTTP error of the
\* backend, or a failed fetch): alert.
ConfirmThrow(i) ==
    /\ confirms[i].phase \in {"rejected", "failed"}
    /\ confirms' = [confirms EXCEPT ![i] = Idle]
    /\ UNCHANGED <<backendVars, mounted, pageData, loading, uploading, interval,
                   fetches, upload, byTimer, failures>>
    /\ Parked

\* Leaving the page: the effect's cleanup clears the timer.  Continuations of
\* requests still in flight act on the unmounted instance, which is gone: GETs are
\* dropped, POSTs still reach the backend.
Orphan(c) ==
    IF c.phase = "sent" THEN [c EXCEPT !.live = FALSE] ELSE Idle

Unmount ==
    /\ mounted
    /\ mounted' = FALSE
    /\ interval' = FALSE
    /\ fetches' = [i \in FetchSlots |-> Idle]
    /\ confirms' = [i \in ConfirmSlots |-> Orphan(confirms[i])]
    /\ upload' = IF upload = "sent" THEN "orphan" ELSE "idle"
    /\ UNCHANGED <<backendVars, pageData, loading, uploading, byTimer, failures>>
    /\ Parked

\* Entering the page: fresh state, the mount effect calls fetchData().
Mount ==
    /\ ~mounted
    /\ mounted' = TRUE
    /\ proposals' = <<>> /\ documents' = <<>> /\ accounts' = <<>> /\ categories' = <<>>
    /\ uploading' = FALSE
    /\ interval' = AutoRefreshEffect(<<>>, <<>>, FALSE)
    /\ fetchData
    /\ byTimer' = FALSE
    /\ UNCHANGED <<backendVars, confirms, upload, failures>>
    /\ Parked

Pipeline ==
    \/ BackendUpload
    \/ \E d \in Docs : BackendParse(d)
    \/ \E d \in Docs, ct \in ProposalChangeType :
          \E t \in Targets(ct) : BackendProcessed(d, ct, t)
    \/ \E d \in Docs : BackendError(d)

Fetching ==
    \/ Refresh
    \/ \E i \in FetchSlots : ServeGets(i)
    \/ \E i \in FetchSlots : FetchResolve(i)
    \/ Unmount
    \/ Mount

Uploading ==
    \/ UploadClick
    \/ UploadResolve
    \/ UploadLost
    \/ UploadThrow

Confirming ==
    \/ \E p \in Props : ApproveClick(p)
    \/ \E p \in Props : RejectClick(p)
    \/ \E i \in ConfirmSlots : ServeConfirm(i)
    \/ \E i \in ConfirmSlots : ConfirmLost(i)
    \/ \E i \in ConfirmSlots : ConfirmResolve(i)
    \/ \E i \in ConfirmSlots : ConfirmThrow(i)

\* Uploads, the extraction pipeline and polling.
NextPolling ==
    \/ Pipeline
    \/ Uploading
    \/ Fetching
    \/ Tick
    \/ \E i \in FetchSlots : FetchThrow(i)

SpecPolling == InitPolling /\ [][NextPolling]_vars

\* The same, for liveness: a re-fetch fails at most MaxFailures times, the
\* backend answers the requests it holds and advances every document, promise
\* continuations run, and the armed timer fires.  Polling reads no change type,
\* so every extracted proposal is a CREATE_NEW here.
FetchThrowCounted(i) ==
    /\ failures < MaxFailures
    /\ FetchCatch(i)
    /\ failures' = failures + 1

BackendFinish(d) ==
    \/ BackendProcessed(d, "CREATE_NEW", Null)
    \/ BackendError(d)

NextPollingFair ==
    \/ BackendUpload
    \/ \E d \in Docs : BackendParse(d)
    \/ \E d \in Docs : BackendFinish(d)
    \/ Uploading
    \/ Fetching
    \/ Tick
    \/ \E i \in FetchSlots : FetchThrowCounted(i)

PollingFairness ==
    /\ WF_vars(BackendUpload)
    /\ \A d \in Docs : WF_vars(BackendParse(d)) /\ WF_vars(BackendFinish(d))
    /\ \A i \in FetchSlots : WF_vars(ServeGets(i)) /\ WF_vars(FetchResolve(i))
    /\ WF_vars(Tick)

SpecPollingFair == InitPolling /\ [][NextPollingFair]_vars /\ PollingFairness

\* Review of the pending queue: approve, discard, re-fetch.
NextReconcile ==
    \/ Confirming
    \/ Fetching
    \/ \E i \in FetchSlots : FetchThrow(i)

SpecReconcile == InitReconcile /\ [][NextReconcile]_vars

(***************************************************************************)
(* Reconciliation state machine.                                           *)
(***************************************************************************)
Terminal(p) == pstatus[p] \in {"APPROVED", "REJECTED"}

TxMutations(p) ==
    Cardinality({i \in 1..Len(ledger[p]) : ledger[p][i].op \in {"insert_tx", "patch_tx"}})

\* C1: a proposal transitions at most once.  A step taken while a proposal is
\* APPROVED or REJECTED changes neither its status nor the ledger rows it caused; a
\* confirm request that reaches the backend for such a proposal is not answered
\* with success; and no proposal ever causes more than one transaction insert or
\* patch, however many confirm requests the client has sent for it.
C1_OneShot ==
    /\ [](\A p \in Props : TxMutations(p) <= 1)
    /\ [][\A p \in Props : Terminal(p) =>
             /\ pstatus'[p] = pstatus[p]
             /\ ledger'[p] = ledger[p]]_vars
    /\ [][\A i \in ConfirmSlots :
             (confirms[i].phase = "sent" /\ Terminal(confirms[i].id))
                 => confirms'[i].phase # "ok"]_vars

\* A double submit: two requests for one proposal, the first answered with
\* success, the second refused.
C1_Witness ==
    \E i, j \in ConfirmSlots :
        /\ confirms[i].phase = "ok" /\ confirms[j].phase = "rejected"
        /\ confirms[i].id = confirms[j].id
        /\ confirms[i].status = "APPROVED" /\ confirms[j].status = "APPROVED"
        /\ TxMutations(confirms[i].id) = 1

\* C2: a status only moves PENDING -> APPROVED or PENDING -> REJECTED, and every
\* confirm request of the client asks for APPROVED or REJECTED.
C2_Transitions ==
    /\ [][\A p \in Props : pstatus'[p] # pstatus[p] =>
             /\ pstatus[p] = "PENDING"
             /\ pstatus'[p] \in {"APPROVED", "REJECTED"}]_vars
    /\ [](\A i \in ConfirmSlots : confirms[i].phase # "idle" =>
             confirms[i].status \in {"APPROVED", "REJECTED"})

C2_Witness ==
    \E p, q \in Props : pstatus[p] = "APPROVED" /\ pstatus[q] = "REJECTED"

\* C3: a reject request carries status REJECTED and no edited_data; the backend
\* step that accepts it marks the proposal REJECTED and leaves the ledger as it
\* was, so a REJECTED proposal has caused no ledger row; and the continuation of
\* handleReject removes the proposal from the displayed queue.
C3_RejectNoMutation ==
    /\ [](\A i \in ConfirmSlots :
             (confirms[i].phase # "idle" /\ confirms[i].status = "REJECTED")
                 => confirms[i].edited_data = Undefined)
    /\ [](\A p \in Props : pstatus[p] = "REJECTED" => ledger[p] = <<>>)
    /\ [][\A i \in ConfirmSlots :
             (/\ confirms[i].phase = "sent" /\ confirms[i].status = "REJECTED"
              /\ pstatus[confirms[i].id] = "PENDING"
              /\ confirms'[i] # confirms[i] /\ confirms'[i].phase # "failed" /\ mounted')
                 => /\ ledger' = ledger
                    /\ pstatus'[confirms[i].id] = "REJECTED"]_vars
    /\ [][\A i \in ConfirmSlots :
             (/\ confirms[i].phase = "ok" /\ confirms[i].status = "REJECTED"
              /\ confirms'[i].phase = "idle" /\ mounted')
                 => \A k \in 1..Len(proposals') : proposals'[k].id # confirms[i].id]_vars

\* A discarded proposal after handleReject has finished, another still queued.
C3_Witness ==
    \E p, q \in Props :
        /\ pstatus[p] = "REJECTED" /\ ledger[p] = <<>>
        /\ mounted /\ ~Displayed(p) /\ Displayed(q)
        /\ \A i \in ConfirmSlots : confirms[i].phase = "idle"

\* The ledger rows an approved proposal of each change type is to have caused.
Expected(p) ==
    CASE pchange[p].change_type = "CREATE_NEW" -> <<"insert_tx">>
      [] pchange[p].change_type = "CREATE_ACCOUNT" -> <<"insert_account", "insert_tx">>
      [] pchange[p].change_type = "UPDATE_EXISTING" -> <<"patch_tx">>
      [] OTHER -> <<>>

\* C4: an approved proposal has inserted one new transaction row (CREATE_NEW;
\* CREATE_ACCOUNT, after the account row) or patched the transaction named by
\* target_transaction_id (UPDATE_EXISTING); UPDATE_EXISTING inserts nothing and
\* the two CREATE types patch nothing; a proposal not approved has caused no row.
C4_ApproveMutation ==
    \A p \in Props :
        IF pstatus[p] = "APPROVED"
        THEN /\ Len(ledger[p]) = Len(Expected(p))
             /\ \A k \in 1..Len(ledger[p]) :
                   /\ ledger[p][k].op = Expected(p)[k]
                   /\ ledger[p][k].tx =
                         (IF ledger[p][k].op = "patch_tx"
                          THEN pchange[p].target_transaction_id ELSE Null)
             /\ pchange[p].change_type = "UPDATE_EXISTING"
                   => pchange[p].target_transaction_id \in TxIds
        ELSE ledger[p] = <<>>

C4_Witness ==
    \E p, q \in Props :
        /\ pstatus[p] = "APPROVED" /\ pchange[p].change_type = "UPDATE_EXISTING"
        /\ pstatus[q] = "APPROVED" /\ pchange[q].change_type = "CREATE_ACCOUNT"
        /\ Len(ledger[q]) = 2

(***************************************************************************)
(* Polling contract.                                                       *)
(***************************************************************************)
Waiting(docs) ==
    {k \in 1..Len(docs) : docs[k].status = "UPLOADED" \/ docs[k].status = "PARSING"}

FetchCalls == Cardinality(FetchSlots \ FreeFetch)

\* C7: while the mounted page's last fetched document list holds a document in
\* status UPLOADED or PARSING, the 2-second timer is armed.
C7_PollingWhileProcessing ==
    (mounted /\ Waiting(documents) # {}) => interval

\* The timer has fired while a document is still being parsed.
C7_Witness ==
    /\ mounted /\ interval /\ byTimer
    /\ \E k \in 1..Len(documents) : documents[k].status = "PARSING"

\* C8: once the last fetched list holds only PROCESSED/ERROR documents the timer
\* is cleared, and it is cleared when the page is unmounted; the interval callback
\* calls fetchData() only while the list holds an UPLOADED or PARSING document.
C8_PollingStops ==
    /\ []((mounted /\ Waiting(documents) = {}) => ~interval)
    /\ [](~mounted => ~interval)
    /\ [][(byTimer' /\ FetchCalls' > FetchCalls) => Waiting(documents) # {}]_vars

\* Polling has run and has stopped: the latest fetchData() was the timer's and
\* its result, all documents processed or failed, is on the page.
C8_Witness ==
    /\ mounted /\ ~interval /\ byTimer /\ FetchCalls = 0
    /\ Len(documents) = MaxDocs
    /\ Waiting(documents) = {}

\* C9: polling terminates.  With every document eventually PROCESSED or ERROR,
\* re-fetches answered and failing only finitely often, the page reaches a state
\* from which the timer is never armed again.
C9_PollingTerminates == <>[](~interval)

\* Polling ran on a store whose documents have all reached PROCESSED or ERROR,
\* and has stopped.
C9_Witness ==
    /\ mounted /\ ~interval /\ byTimer
    /\ \A d \in Docs : dstatus[d] \in {"PROCESSED", "ERROR"}
    /\ Len(documents) = MaxDocs
    /\ failures = MaxFailures

(***************************************************************************)
(* ProposalCard: the edit buffer of one proposal and its confirm payload.  *)
(*                                                                         *)
(* A JavaScript value is a string here: "n:5" the number 5, "s:5" the      *)
(* string "5", "s:" the empty string, "null", "NaN", and "undefined" for a *)
(* key the object does not have.  proposed_data has the keys transactions  *)
(* (hasArray: whether it is an array), _new_account (hasAccount) and the   *)
(* transaction fields of the flat shape (top).                             *)
(***************************************************************************)
TxFields == {"amount", "merchant"}
Numbers == {"n:0", "n:5", "n:7"}
ProposedAmounts == {"undefined", "null", "n:5", "s:5"}   \* what the extraction emits
ProposedMerchants == {"undefined", "s:a"}
TypedAmounts == {"s:7", "s:"}       \* e.target.value of <input type="number">
TypedMerchants == {"s:b"}
TypedNames == {"s:b"}

\* Number(v)
Number(v) ==
    CASE v \in Numbers -> v
      [] v = "s:5" -> "n:5"
      [] v = "s:7" -> "n:7"
      [] v = "s:" -> "n:0"
      [] v = "null" -> "n:0"
      [] OTHER -> "NaN"

\* A value after JSON.stringify and JSON.parse: NaN is written as null.
JsonValue(v) == IF v = "NaN" THEN "null" ELSE v

JsonEntry(t) == [f \in TxFields |-> JsonValue(t[f])]

\* JSON.parse(JSON.stringify(data))
JsonClone(data) ==
    [hasArray |-> data.hasArray,
     transactions |-> [k \in 1..Len(data.transactions) |-> JsonEntry(data.transactions[k])],
     top |-> JsonEntry(data.top),
     hasAccount |-> data.hasAccount,
     new_account |-> [name |-> JsonValue(data.new_account.name)]]

NoEntry == [f \in TxFields |-> "undefined"]

getTransactions_KeepAccount(data) ==    \* mutant: _new_account is not taken out of rest
    IF data.hasArray THEN data.transactions
    ELSE IF data.hasAccount \/ \E f \in TxFields : data.top[f] # "undefined" THEN <<data.top>>
    ELSE <<>>

\* getTransactions: the list the card shows.
getTransactions(data) ==
    IF data.hasArray THEN data.transactions
    ELSE IF \E f \in TxFields : data.top[f] # "undefined" THEN <<data.top>>
    ELSE <<>>

isCreateAccount == card.change_type = "CREATE_ACCOUNT"

handleUpdateTransaction_Flat(data, index, field, value) ==    \* mutant: no array branch
    [data EXCEPT !.top[field] = value]

\* handleUpdateTransaction(index, field, value); index counts from 1 here.
handleUpdateTransaction(data, index, field, value) ==
    IF data.hasArray
    THEN [data EXCEPT !.transactions[index][field] = value]
    ELSE [data EXCEPT !.top[field] = value]

\* handleUpdateAccountField(field, value); name is the one field modelled.
handleUpdateAccountField(data, value) ==
    IF ~isCreateAccount THEN data
    ELSE [data EXCEPT !.hasAccount = TRUE, !.new_account.name = value]

\* handleConfirmAction: the sanitized data handed to onConfirm.
handleConfirmAction(data) ==
    LET sanitizedData == JsonClone(data)
    IN IF sanitizedData.hasArray
       THEN [sanitizedData EXCEPT !.transactions =
                [k \in 1..Len(sanitizedData.transactions) |->
                    [sanitizedData.transactions[k] EXCEPT !.amount = Number(@)]]]
       ELSE IF sanitizedData.top.amount # "undefined"
            THEN [sanitizedData EXCEPT !.top.amount = Number(@)]
            ELSE sanitizedData

\* onConfirm -> handleConfirm -> confirmProposal -> JSON.stringify(payload): the
\* data is an object, so it is truthy and edited_data is part of the body.
ConfirmBody(data) ==
    [status |-> "APPROVED", edited_data |-> JsonClone(handleConfirmAction(data))]

Untouched ==
    [tx |-> [k \in 1..MaxTx |-> [f \in TxFields |-> "none"]], name |-> "none"]

ProposedData ==
    {d \in [hasArray : BOOLEAN,
            transactions : UNION {[1..n -> [amount : ProposedAmounts,
                                            merchant : ProposedMerchants]] : n \in 0..MaxTx},
            top : [amount : ProposedAmounts, merchant : ProposedMerchants],
            hasAccount : BOOLEAN,
            new_account : [name : {"undefined", "s:a"}]] :
        /\ d.hasArray => d.top = NoEntry
        /\ ~d.hasArray => d.transactions = <<>>
        /\ d.hasAccount = (d.new_account.name # "undefined")}

InboxParked ==
    /\ dstatus = <<>> /\ pstatus = <<>> /\ pchange = <<>> /\ ledger = <<>>
    /\ mounted = FALSE
    /\ proposals = <<>> /\ documents = <<>> /\ accounts = <<>> /\ categories = <<>>
    /\ loading = FALSE /\ uploading = FALSE /\ interval = FALSE
    /\ fetches = <<>> /\ confirms = <<>>
    /\ upload = "idle" /\ byTimer = FALSE /\ failures = 0

InitCard ==
    /\ InboxParked /\ FetcherParked /\ OthersParked
    /\ card \in [change_type : ProposalChangeType, proposed_data : ProposedData]
    /\ card.proposed_data.hasAccount = (card.change_type = "CREATE_ACCOUNT")
    /\ isEditing = FALSE
    /\ editedData = JsonClone(card.proposed_data)
    /\ lastEdit = Untouched
    /\ outbox = <<>>

\* The pencil button.
ToggleEdit ==
    /\ isEditing' = ~isEditing
    /\ UNCHANGED <<card, editedData, lastEdit, outbox>>
    /\ UNCHANGED <<inboxVars, fetcherVars, otherVars>>

\* An input of row k of the transactions table changes.
EditTransaction(k, field, value) ==
    /\ isEditing
    /\ k \in 1..Len(getTransactions(editedData))
    /\ editedData' = handleUpdateTransaction(editedData, k, field, value)
    /\ lastEdit' = [lastEdit EXCEPT !.tx[k][field] = value]
    /\ UNCHANGED <<card, isEditing, outbox>>
    /\ UNCHANGED <<inboxVars, fetcherVars, otherVars>>

\* The account name input (shown for CREATE_ACCOUNT with a _new_account).
EditAccount(value) ==
    /\ isEditing /\ isCreateAccount /\ editedData.hasAccount
    /\ editedData' = handleUpdateAccountField(editedData, value)
    /\ lastEdit' = [lastEdit EXCEPT !.name = value]
    /\ UNCHANGED <<card, isEditing, outbox>>
    /\ UNCHANGED <<inboxVars, fetcherVars, otherVars>>

\* The Approve button, down to the call of fetch().
ConfirmAction ==
    /\ Len(outbox) < MaxOutbox
    /\ outbox' = Append(outbox, [body |-> ConfirmBody(editedData), edits |-> lastEdit])
    /\ UNCHANGED <<card, isEditing, editedData, lastEdit>>
    /\ UNCHANGED <<inboxVars, fetcherVars, otherVars>>

\* The network takes the oldest request.
CardPosted ==
    /\ outbox # <<>>
    /\ outbox' = Tail(outbox)
    /\ UNCHANGED <<card, isEditing, editedData, lastEdit>>
    /\ UNCHANGED <<inboxVars, fetcherVars, otherVars>>

NextCard ==
    \/ ToggleEdit
    \/ \E k \in 1..MaxTx : \E v \in TypedAmounts : EditTransaction(k, "amount", v)
    \/ \E k \in 1..MaxTx : \E v \in TypedMerchants : EditTransaction(k, "merchant", v)
    \/ \E v \in TypedNames : EditAccount(v)
    \/ ConfirmAction
    \/ CardPosted

SpecCard == InitCard /\ [][NextCard]_vars

(***************************************************************************)
(* Confirm payload of a card.                                              *)
(***************************************************************************)
\* The transactions of a payload or of proposed_data, one list for both shapes.
Rows(data) == IF data.hasArray THEN data.transactions ELSE <<data.top>>

\* The value field f of row k is to carry: the last edit, else the proposed one.
Wanted(edits, k, f) ==
    IF edits.tx[k][f] # "none" THEN edits.tx[k][f]
    ELSE Rows(card.proposed_data)[k][f]

WantedName(edits) ==
    IF edits.name # "none" THEN edits.name ELSE card.proposed_data.new_account.name

SameShape(sent) ==
    /\ sent.hasArray = card.proposed_data.hasArray
    /\ Len(Rows(sent)) = Len(Rows(card.proposed_data))
    /\ sent.hasAccount = card.proposed_data.hasAccount

SentAmount(v, inArray) ==
    CASE v \in Numbers -> v
      [] v \in {"s:5"} -> "n:5"
      [] v \in {"s:7"} -> "n:7"
      [] v \in {"s:", "null"} -> "n:0"
      [] v = "undefined" /\ ~inArray -> "undefined"
      [] OTHER -> "null"

C6_AmountsNumeric ==
    \A r \in 1..Len(outbox) :
        LET sent == outbox[r].body.edited_data
        IN IF sent.hasArray
           THEN \A k \in 1..Len(sent.transactions) : sent.transactions[k].amount \in Numbers
           ELSE sent.top.amount # "undefined" => sent.top.amount \in Numbers

(***************************************************************************)
(* The HTTP client wrapper and the connection settings.                    *)
(*                                                                         *)
(* A URL is a sequence of pieces, so that a trailing slash can be cut and  *)
(* a path appended.  A Headers object maps a lower-case name to the list   *)
(* of values given for it (the browser joins them with ", ").              *)
(***************************************************************************)
STORAGE_KEYS == {"gemini_budget_api_url", "gemini_budget_user_email"}
DEFAULT_API_URL == <<"http://localhost:8000">>
DEFAULT_USER_EMAIL == "user@example.com"

\* What can be submitted from the Settings form: the e-mail input is of type
\* email and not required, so it is a valid address or empty.
FormUrls == {<<>>, <<"http://h">>, <<"http://h", "/">>, <<"http://h", "/", "/">>}
FormEmails == {"", "a@x.io", "b@x.io"}

Paths == {<<"/proposals/">>, <<"/documents/upload">>}
Methods == {Undefined, "POST"}
Bodies == {Undefined, "json", "FormData"}
HeaderNames == {"x-forwarded-email", "content-type"}
CallerHeaders ==
    {<<"X-Forwarded-Email", "evil@x.io">>, <<"x-forwarded-email", "evil@x.io">>,
     <<"Content-Type", "text/plain">>}
HeadersInit == UNION {[1..n -> CallerHeaders] : n \in 0..MaxHeaders}
\* The RequestInit a caller passes; hasHeaders is whether it has a headers field.
Options ==
    {o \in [method : Methods, body : Bodies, hasHeaders : BOOLEAN, headers : HeadersInit] :
        ~o.hasHeaders => o.headers = <<>>}

\* Header names are case-insensitive.
Lower(name) ==
    CASE name \in {"X-Forwarded-Email", "x-forwarded-email"} -> "x-forwarded-email"
      [] name \in {"Content-Type", "content-type"} -> "content-type"

\* localStorage.getItem(key)
getItem(key) ==
    IF key = "gemini_budget_api_url"
    THEN (IF storage.has_url THEN storage.url ELSE <<>>)
    ELSE (IF storage.has_email THEN storage.email ELSE "")

\* localStorage.getItem(key) is null
Missing(key) ==
    IF key = "gemini_budget_api_url" THEN ~storage.has_url ELSE ~storage.has_email

\* getApiSettings(): a || b is b when a is null or empty.
getApiSettings ==
    [apiUrl |-> IF Missing("gemini_budget_api_url") \/ getItem("gemini_budget_api_url") = <<>>
                THEN DEFAULT_API_URL ELSE getItem("gemini_budget_api_url"),
     userEmail |-> IF Missing("gemini_budget_user_email") \/ getItem("gemini_budget_user_email") = ""
                   THEN DEFAULT_USER_EMAIL ELSE getItem("gemini_budget_user_email")]

\* setApiSettings(apiUrl, userEmail)
setApiSettings(apiUrl, userEmail) ==
    [has_url |-> TRUE, url |-> apiUrl, has_email |-> TRUE, email |-> userEmail]

baseUrl_Keep(apiUrl) == apiUrl               \* mutant: the slash is kept

\* apiUrl.endsWith('/') ? apiUrl.slice(0, -1) : apiUrl
baseUrl(apiUrl) ==
    IF apiUrl # <<>> /\ apiUrl[Len(apiUrl)] = "/"
    THEN SubSeq(apiUrl, 1, Len(apiUrl) - 1) ELSE apiUrl

EmptyHeaders == [n \in HeaderNames |-> <<>>]

RECURSIVE AppendAll(_, _)
\* new Headers(init): every entry is appended under its lower-case name.
AppendAll(h, init) ==
    IF init = <<>> THEN h
    ELSE AppendAll([h EXCEPT ![Lower(init[1][1])] = @ \o <<init[1][2]>>], Tail(init))

\* new Headers(options.headers || {})
NewHeaders(options) ==
    AppendAll(EmptyHeaders, IF options.hasHeaders THEN options.headers ELSE <<>>)

\* headers.set(name, value): the one value of that name from now on.
HeadersSet(h, name, value) == [h EXCEPT ![Lower(name)] = <<value>>]

RequestHeaders_Append(options, userEmail) ==    \* mutant: append(), not set()
    LET given == NewHeaders(options)
    IN [given EXCEPT !["x-forwarded-email"] = @ \o <<userEmail>>]

\* The headers fetcher sends.
RequestHeaders(options, userEmail) ==
    LET identified == HeadersSet(NewHeaders(options), "X-Forwarded-Email", userEmail)
    IN IF options.body # Undefined /\ options.body # "FormData"
       THEN HeadersSet(identified, "Content-Type", "application/json")
       ELSE identified

\* The arguments of fetch(url, fetchOptions); stored and given record what
\* localStorage held and what the caller passed when the call was made.
fetchCall(path, options) ==
    [url |-> baseUrl(getApiSettings.apiUrl) \o path,
     baseUrl |-> baseUrl(getApiSettings.apiUrl),
     path |-> path,
     method |-> options.method,
     body |-> options.body,
     headers |-> RequestHeaders(options, getApiSettings.userEmail),
     mode |-> "cors",
     credentials |-> "omit",
     stored |-> storage,
     given |-> IF options.hasHeaders THEN options.headers ELSE <<>>]

\* A browser that has never saved the settings.
InitFetcher ==
    /\ InboxParked /\ CardParked /\ OthersParked
    /\ storage = [has_url |-> FALSE, url |-> <<>>, has_email |-> FALSE, email |-> ""]
    /\ request = <<>>
    /\ outcome = <<>>

(***************************************************************************)
(* fetcher after the await of fetch(): the response, or the rejection.     *)
(*                                                                         *)
(* A status is its decimal text; a message is a sequence of pieces.  A     *)
(* JSON value is a record of its type and, for an object, its detail       *)
(* member: absent, a string ("s:" and the text) or an array of objects.    *)
(***************************************************************************)
Statuses == {"200", "204", "404", "422"}

\* response.ok: the status is in the range 200-299.
Ok(status) == status \in {"200", "204"}

statusText(status) ==
    CASE status = "200" -> "OK"
      [] status = "204" -> "No Content"
      [] status = "404" -> "Not Found"
      [] status = "422" -> "Unprocessable Entity"

BodyTexts ==
    {"", "<html>", "null", "[]", "{}", "{\"detail\":\"\"}", "{\"detail\":\"gone\"}",
     "{\"detail\":\"Failed to fetch\"}", "{\"detail\":[{\"msg\":\"bad\"}]}"}

\* A 204 response has no body.
Responses ==
    {r \in [status : Statuses, statusText : {statusText(s) : s \in Statuses},
            body : BodyTexts] :
        /\ r.statusText = statusText(r.status)
        /\ r.status = "204" => r.body = ""}

\* What fetch() rejects with when the server cannot be reached, by browser.
FetchErrors == {<<"Failed to fetch">>, <<"Load failed">>}

JsValue(type, detail) == [type |-> type, detail |-> detail]
JsNull == JsValue("null", Undefined)
NoValue == JsValue("undefined", Undefined)

\* JSON.parse(text); response.json() is JSON.parse of the body.
JSONparse(text) ==
    CASE text = "null" -> [threw |-> FALSE, value |-> JsNull]
      [] text = "[]" -> [threw |-> FALSE, value |-> JsValue("array", Undefined)]
      [] text = "{}" -> [threw |-> FALSE, value |-> JsValue("object", Undefined)]
      [] text = "{\"detail\":\"\"}" -> [threw |-> FALSE, value |-> JsValue("object", "s:")]
      [] text = "{\"detail\":\"gone\"}" ->
            [threw |-> FALSE, value |-> JsValue("object", "s:gone")]
      [] text = "{\"detail\":\"Failed to fetch\"}" ->
            [threw |-> FALSE, value |-> JsValue("object", "s:Failed to fetch")]
      [] text = "{\"detail\":[{\"msg\":\"bad\"}]}" ->
            [threw |-> FALSE, value |-> JsValue("object", "a:[{msg}]")]
      [] OTHER -> [threw |-> TRUE, value |-> NoValue]

\* new Error(v).message is String(v).
ErrorMessage(v) ==
    CASE v = "s:gone" -> <<"gone">>
      [] v = "s:Failed to fetch" -> <<"Failed to fetch">>
      [] v = "s:" -> <<>>
      [] v = "a:[{msg}]" -> <<"[object Object]">>
      [] OTHER -> <<"undefined">>

Returned(value) == [kind |-> "return", value |-> value, message |-> <<>>]
Thrown(message) == [kind |-> "throw", value |-> NoValue, message |-> message]

\* The message of the Error thrown for a response that is not ok.
errorDetail(response) ==
    LET default == <<"Error ", response.status, ": ", response.statusText>>
        errorData == JSONparse(response.body)
    IN IF errorData.threw \/ errorData.value.type = "null" THEN default
       ELSE IF errorData.value.detail \notin {Undefined, "s:"}
            THEN ErrorMessage(errorData.value.detail)
            ELSE default

fetcherTry_ParseAlways(response) ==    \* mutant: JSON.parse(text) with no test of text
    IF response.status = "204" THEN Returned(JsNull)
    ELSE IF ~Ok(response.status) THEN Thrown(errorDetail(response))
    ELSE IF JSONparse(response.body).threw THEN Thrown(<<"Unexpected token">>)
    ELSE Returned(JSONparse(response.body).value)

\* The try block, from the response on.
fetcherTry(response) ==
    IF response.status = "204" THEN Returned(JsNull)
    ELSE IF ~Ok(response.status) THEN Thrown(errorDetail(response))
    ELSE IF response.body = "" THEN Returned(JsNull)
    ELSE IF JSONparse(response.body).threw THEN Thrown(<<"Unexpected token">>)
    ELSE Returned(JSONparse(response.body).value)

\* The catch block.
fetcherCatch(result, base) ==
    IF result.kind = "throw" /\ result.message = <<"Failed to fetch">>
    THEN Thrown(<<"Unable to connect to server at ">> \o base
                  \o <<". Is the backend running?">>)
    ELSE result

\* What is kept of the call an outcome belongs to.
CallOf(call) ==
    [body |-> call.body, contentType |-> call.headers["content-type"],
     baseUrl |-> call.baseUrl]

NoResponse == [status |-> "0", statusText |-> "", body |-> ""]

\* Save Configuration on the Settings page.
handleSaveConnection(apiUrl, userEmail) ==
    /\ storage' = setApiSettings(apiUrl, userEmail)
    /\ UNCHANGED <<request, outcome, inboxVars, cardVars, otherVars>>

\* fetcher(path, options), down to the call of fetch().
Fetcher(path, options) ==
    /\ Len(request) + Len(outcome) < MaxRequests
    /\ request' = Append(request, fetchCall(path, options))
    /\ UNCHANGED <<storage, outcome, inboxVars, cardVars, otherVars>>

\* The network takes the oldest request; the page is gone before the answer
\* (Save Configuration reloads the window).
RequestTaken ==
    /\ request # <<>>
    /\ request' = Tail(request)
    /\ UNCHANGED <<storage, outcome, inboxVars, cardVars, otherVars>>

\* The server answers the oldest request, and fetcher returns or throws.
Respond(response) ==
    /\ request # <<>>
    /\ request' = Tail(request)
    /\ outcome' = Append(outcome,
          [answered |-> TRUE, response |-> response, call |-> CallOf(request[1]),
           result |-> fetcherCatch(fetcherTry(response), request[1].baseUrl)])
    /\ UNCHANGED <<storage, inboxVars, cardVars, otherVars>>

\* fetch() rejects: the server was not reached.
FetchRejects(message) ==
    /\ request # <<>>
    /\ request' = Tail(request)
    /\ outcome' = Append(outcome,
          [answered |-> FALSE, response |-> NoResponse, call |-> CallOf(request[1]),
           result |-> fetcherCatch(Thrown(message), request[1].baseUrl)])
    /\ UNCHANGED <<storage, inboxVars, cardVars, otherVars>>

\* The caller's continuation has run.
Settled ==
    /\ outcome # <<>>
    /\ outcome' = Tail(outcome)
    /\ UNCHANGED <<storage, request, inboxVars, cardVars, otherVars>>

NextFetcher ==
    \/ \E u \in FormUrls : \E e \in FormEmails : handleSaveConnection(u, e)
    \/ \E path \in Paths : \E options \in Options : Fetcher(path, options)
    \/ RequestTaken
    \/ \E response \in Responses : Respond(response)
    \/ \E message \in FetchErrors : FetchRejects(message)
    \/ Settled

SpecFetcher == InitFetcher /\ [][NextFetcher]_vars

\* C10 as stated: the X-Forwarded-Email header of every request is the e-mail
\* stored when the request was made, user@example.com when none was stored,
\* whatever the caller passed.
C10_IdentityHeaderIsStored ==
    \A r \in 1..Len(request) :
        request[r].headers["x-forwarded-email"] =
            <<IF request[r].stored.has_email THEN request[r].stored.email
              ELSE "user@example.com">>

\* C10, amended: the X-Forwarded-Email header of every request has exactly one
\* value, whatever the caller passed: the e-mail stored when the request was
\* made, or user@example.com when none was stored or the stored one is empty.
C10_IdentityHeader ==
    \A r \in 1..Len(request) :
        request[r].headers["x-forwarded-email"] =
            <<IF request[r].stored.has_email /\ request[r].stored.email # ""
              THEN request[r].stored.email ELSE "user@example.com">>

\* A request made with a@x.io stored, by a caller that passed another identity,
\* and still in flight after the stored e-mail has become b@x.io.
C10_Witness ==
    \E r \in 1..Len(request) :
        /\ \E k \in 1..Len(request[r].given) : Lower(request[r].given[k][1]) = "x-forwarded-email"
        /\ request[r].stored.email = "a@x.io"
        /\ storage.email = "b@x.io"
        /\ request[r].headers["x-forwarded-email"] = <<"a@x.io">>

\* The text of a body's detail member when the body is JSON with a non-empty
\* detail, and nothing otherwise.
DetailText(body) ==
    CASE body = "{\"detail\":\"gone\"}" -> <<"gone">>
      [] body = "{\"detail\":\"Failed to fetch\"}" -> <<"Failed to fetch">>
      [] body = "{\"detail\":[{\"msg\":\"bad\"}]}" -> <<"[{\"msg\":\"bad\"}]">>
      [] OTHER -> <<>>

\* C11: for every response whose status is not OK the call throws, and the
\* message thrown is the body's detail when the body is JSON with a non-empty
\* detail, 'Error <status>: <statusText>' otherwise.
C11_ErrorsThrowDetail ==
    \A k \in 1..Len(outcome) :
        (outcome[k].answered /\ ~Ok(outcome[k].response.status)) =>
            /\ outcome[k].result.kind = "throw"
            /\ outcome[k].result.message =
                  (IF DetailText(outcome[k].response.body) # <<>>
                   THEN DetailText(outcome[k].response.body)
                   ELSE <<"Error ", outcome[k].response.status, ": ",
                          outcome[k].response.statusText>>)

\* C12: a request has Content-Type application/json exactly when it has a body
\* that is not FormData; and a call answered with an OK status returns null for
\* status 204 or an empty body, returns the parsed JSON for a JSON body, and
\* throws for a body that is not JSON.
C12_BodiesAndResults ==
    /\ \A r \in 1..Len(request) :
          (request[r].headers["content-type"] = <<"application/json">>)
              <=> (request[r].body \notin {Undefined, "FormData"})
    /\ \A k \in 1..Len(outcome) :
          /\ (outcome[k].call.contentType = <<"application/json">>)
                <=> (outcome[k].call.body \notin {Undefined, "FormData"})
          /\ (outcome[k].answered /\ Ok(outcome[k].response.status)) =>
                IF outcome[k].response.status = "204" \/ outcome[k].response.body = ""
                THEN /\ outcome[k].result.kind = "return"
                     /\ outcome[k].result.value.type = "null"
                ELSE IF JSONparse(outcome[k].response.body).threw
                     THEN outcome[k].result.kind = "throw"
                     ELSE /\ outcome[k].result.kind = "return"
                          /\ outcome[k].result.value =
                                JSONparse(outcome[k].response.body).value

\* A JSON POST answered 200 with a JSON object, which the call returns.
C12_Witness ==
    \E k \in 1..Len(outcome) :
        /\ outcome[k].call.body = "json"
        /\ outcome[k].call.contentType = <<"application/json">>
        /\ outcome[k].response.status = "200"
        /\ outcome[k].response.body = "{\"detail\":\"gone\"}"
        /\ outcome[k].result.kind = "return"
        /\ outcome[k].result.value.detail = "s:gone"

(***************************************************************************)
(* The pending queue of the Proposals page.                                *)
(***************************************************************************)
RECURSIVE PendingRows(_)
\* The rows of a response of GET /proposals/ whose status is PENDING, in order.
PendingRows(rows) ==
    IF rows = <<>> THEN <<>>
    ELSE IF rows[1].status = "PENDING" THEN <<rows[1]>> \o PendingRows(Tail(rows))
    ELSE PendingRows(Tail(rows))

DisplayedNext(p) == \E k \in 1..Len(proposals') : proposals'[k].id = p

\* C13: every row of the displayed list has status PENDING; and the step that
\* completes a fetchData() sets the list to the PENDING rows of the returned
\* proposals, in their order.
C13_QueueIsPending ==
    /\ [](\A k \in 1..Len(proposals) : proposals[k].status = "PENDING")
    /\ [][\A i \in FetchSlots :
             (fetches[i].phase = "served" /\ fetches'[i].phase = "idle" /\ mounted')
                 => proposals' = PendingRows(fetches[i].proposals)]_vars

\* A completed fetch has left one pending proposal in the list; the other was
\* approved on the backend, but the answer to the approval was lost, so only
\* the fetch can have taken it out of the list.
C13_Witness ==
    \E p, q \in Props : \E i \in ConfirmSlots :
        /\ mounted /\ ~loading /\ categories = Categories
        /\ pstatus[p] = "APPROVED" /\ pstatus[q] = "PENDING"
        /\ proposals = <<[id |-> q, status |-> "PENDING"]>>
        /\ confirms[i].phase = "failed" /\ confirms[i].id = p
        /\ \A j \in ConfirmSlots \ {i} : confirms[j].phase = "idle"

\* C14: a proposal that is APPROVED or REJECTED and is not in the displayed list
\* does not come back into it, whatever step is taken.
C14_NeverReappears ==
    [][\A p \in Props : (mounted /\ mounted' /\ Terminal(p) /\ ~Displayed(p))
                            => ~DisplayedNext(p)]_vars

Balances == (0 - MaxBalance)..MaxBalance
AccountLists == UNION {[1..n -> Balances] : n \in 0..MaxAccounts}

RECURSIVE Reduce(_, _)
\* list.reduce((sum, a) => sum + a.current_balance, sum)
Reduce(list, sum) ==
    IF list = <<>> THEN sum ELSE Reduce(Tail(list), sum + list[1])

\* Math.abs(x)
Abs(x) == IF x < 0 THEN 0 - x ELSE x

totalAssets(accs) == Reduce(SelectSeq(accs, LAMBDA a : a > 0), 0)

totalLiabilities_Signed(accs) ==            \* mutant: no Math.abs
    Reduce(SelectSeq(accs, LAMBDA a : a < 0), 0)

totalLiabilities(accs) == Abs(Reduce(SelectSeq(accs, LAMBDA a : a < 0), 0))

netWorth(accs) == Reduce(accs, 0)

InitDashboard ==
    /\ InboxParked /\ CardParked /\ FetcherParked
    /\ PricingParked /\ SearchParked /\ FormParked
    /\ dashboard = [accounts |-> <<>>, loading |-> TRUE, error |-> FALSE, pending |-> TRUE]

\* fetchData after Promise.all resolved: setAccounts(accs), setLoading(false).
DashboardResolve(accs) ==
    /\ dashboard.pending
    /\ dashboard' = [dashboard EXCEPT !.accounts = accs, !.loading = FALSE,
                                      !.pending = FALSE]
    /\ UNCHANGED <<inboxVars, cardVars, fetcherVars, pricing, search, form>>

\* fetchData when a request threw: setError(message), setLoading(false).
DashboardCatch ==
    /\ dashboard.pending
    /\ dashboard' = [dashboard EXCEPT !.error = TRUE, !.loading = FALSE,
                                      !.pending = FALSE]
    /\ UNCHANGED <<inboxVars, cardVars, fetcherVars, pricing, search, form>>

\* Try Again, shown with the error: fetchData().
DashboardRetry ==
    /\ dashboard.error /\ ~dashboard.loading
    /\ dashboard' = [dashboard EXCEPT !.loading = TRUE, !.error = FALSE,
                                      !.pending = TRUE]
    /\ UNCHANGED <<inboxVars, cardVars, fetcherVars, pricing, search, form>>

\* The page is left and visited anew: fresh state, the mount effect fetches.
DashboardMount ==
    /\ ~dashboard.pending
    /\ dashboard' = [accounts |-> <<>>, loading |-> TRUE, error |-> FALSE,
                     pending |-> TRUE]
    /\ UNCHANGED <<inboxVars, cardVars, fetcherVars, pricing, search, form>>

NextDashboard ==
    \/ \E accs \in AccountLists : DashboardResolve(accs)
    \/ DashboardCatch
    \/ DashboardRetry
    \/ DashboardMount

SpecDashboard == InitDashboard /\ [][NextDashboard]_vars

RECURSIVE SumWhere(_, _, _)
\* The sum of the balances of accs among the first n that lie in the set S.
SumWhere(accs, n, S) ==
    IF n = 0 THEN 0
    ELSE SumWhere(accs, n - 1, S) + (IF accs[n] \in S THEN accs[n] ELSE 0)

\* C16: total assets is the sum of the strictly positive balances, liabilities
\* the absolute value of the sum of the strictly negative ones, net worth the
\* sum of all; so assets >= 0, liabilities >= 0 and net worth is assets minus
\* liabilities.
C16_Totals ==
    LET accs == dashboard.accounts
        n == Len(accs)
    IN /\ totalAssets(accs) = SumWhere(accs, n, 1..MaxBalance)
       /\ totalLiabilities(accs) = 0 - SumWhere(accs, n, (0 - MaxBalance)..(0 - 1))
       /\ netWorth(accs) = SumWhere(accs, n, Balances)
       /\ totalAssets(accs) >= 0
       /\ totalLiabilities(accs) >= 0
       /\ netWorth(accs) = totalAssets(accs) - totalLiabilities(accs)

\* Accounts in credit, in debt and empty, with a negative net worth.
C16_Witness ==
    /\ ~dashboard.loading /\ ~dashboard.error
    /\ dashboard.accounts = <<1, 0 - 2, 0>>
    /\ totalAssets(dashboard.accounts) = 1
    /\ totalLiabilities(dashboard.accounts) = 2
    /\ netWorth(dashboard.accounts) = 0 - 1

\* The API URL and the e-mail a call is to use, given what localStorage held.
SettingsOf(stored) ==
    [apiUrl |-> IF stored.has_url /\ stored.url # <<>>
                THEN stored.url ELSE <<"http://localhost:8000">>,
     userEmail |-> IF stored.has_email /\ stored.email # ""
                   THEN stored.email ELSE "user@example.com"]

\* A URL without its last piece when that is a slash.
OneSlashLess(url) ==
    IF url # <<>> /\ url[Len(url)] = "/" THEN [k \in 1..(Len(url) - 1) |-> url[k]] ELSE url

\* C17: saving (url, email) stores both, and getApiSettings then returns each
\* value that is not empty; getApiSettings returns the default for a value that
\* is absent or empty; and every request goes to the API URL of the settings
\* held when it was made, less one trailing slash, followed by the path, under
\* the e-mail of those settings.
C17_SettingsRoundTrip ==
    /\ [][storage' # storage =>
             \E u \in FormUrls : \E e \in FormEmails :
                 /\ storage' = [has_url |-> TRUE, url |-> u, has_email |-> TRUE, email |-> e]
                 /\ u # <<>> => getApiSettings'.apiUrl = u
                 /\ e # "" => getApiSettings'.userEmail = e]_vars
    /\ [](getApiSettings = SettingsOf(storage))
    /\ [](\A r \in 1..Len(request) :
             /\ request[r].url =
                   OneSlashLess(SettingsOf(request[r].stored).apiUrl) \o request[r].path
             /\ request[r].headers["x-forwarded-email"] =
                   <<SettingsOf(request[r].stored).userEmail>>)

\* A request made after http://h// and a@x.io were saved: it goes to http://h/
\* followed by the path.
C17_Witness ==
    \E r \in 1..Len(request) :
        /\ request[r].stored =
              [has_url |-> TRUE, url |-> <<"http://h", "/", "/">>,
               has_email |-> TRUE, email |-> "a@x.io"]
        /\ request[r].url = <<"http://h", "/", "/proposals/">>
        /\ request[r].headers["x-forwarded-email"] = <<"a@x.io">>

RECURSIVE Without(_, _)
\* The rows of a list other than those of proposal id, in their order.
Without(rows, id) ==
    IF rows = <<>> THEN <<>>
    ELSE IF rows[1].id = id THEN Without(Tail(rows), id)
    ELSE <<rows[1]>> \o Without(Tail(rows), id)

\* C18 as stated: after the step in which handleConfirm or handleReject handles
\* a confirmProposal that threw, the proposal is in the displayed list and the
\* list has lost no other row.
C18_FailureKeepsProposal ==
    [][\A i \in ConfirmSlots :
          (confirms[i].phase \in {"rejected", "failed"} /\ confirms'[i].phase = "idle"
           /\ mounted')
              => /\ DisplayedNext(confirms[i].id)
                 /\ Without(proposals', confirms[i].id) = Without(proposals, confirms[i].id)]_vars

\* C18, amended: the step that handles a confirmProposal that threw leaves the
\* four lists of the page as they were (a proposal displayed before it is
\* displayed after it, and can be retried); the step that handles one that
\* succeeded removes the rows of that proposal and keeps every other row, in
\* order.
C18_FailureChangesNothing ==
    /\ [][\A i \in ConfirmSlots :
             (confirms[i].phase \in {"rejected", "failed"} /\ confirms'[i].phase = "idle"
              /\ mounted')
                 => pageData' = pageData]_vars
    /\ [][\A i \in ConfirmSlots :
             (confirms[i].phase = "ok" /\ confirms'[i].phase = "idle" /\ mounted')
                 => /\ proposals' = Without(proposals, confirms[i].id)
                    /\ <<documents, accounts, categories>>' = <<documents, accounts, categories>>]_vars

\* Both proposals are displayed with nothing in flight, though the backend has
\* approved the first: the answer to the approval was lost and the failure has
\* been handled.
C18_Witness ==
    /\ mounted /\ FetchCalls = 0
    /\ \A i \in ConfirmSlots : confirms[i].phase = "idle"
    /\ pstatus[1] = "APPROVED" /\ pstatus[2] = "PENDING"
    /\ proposals = <<[id |-> 1, status |-> "PENDING"], [id |-> 2, status |-> "PENDING"]>>

\* C19: the step in which a fetchData() fails leaves proposals, documents,
\* accounts and categories as they were, clears the loading flag and leaves the
\* polling timer as it was, so it stays armed when the documents last fetched
\* include one UPLOADED or PARSING; and documents, accounts or categories change
\* on the mounted page only in the step that completes a fetch, which sets all
\* four lists from the four responses.
C19_FailedFetch ==
    /\ [][failures' # failures =>
             /\ pageData' = pageData
             /\ ~loading'
             /\ interval' = interval
             /\ (mounted /\ Waiting(documents) # {}) => interval']_vars
    /\ [][(mounted /\ mounted'
           /\ <<documents, accounts, categories>>' # <<documents, accounts, categories>>)
             => \E i \in FetchSlots :
                   /\ fetches[i].phase = "served" /\ fetches'[i].phase = "idle"
                   /\ proposals' = PendingRows(fetches[i].proposals)
                   /\ documents' = fetches[i].documents
                   /\ accounts' = fetches[i].accounts
                   /\ categories' = Categories]_vars

\* A re-fetch has failed and nothing is in flight; the page still shows a
\* document being parsed and the timer is armed.
C19_Witness ==
    /\ failures = MaxFailures
    /\ mounted /\ ~loading /\ FetchCalls = 0
    /\ \E k \in 1..Len(documents) : documents[k].status = "PARSING"
    /\ interval /\ byTimer

(***************************************************************************)
(* Framing of the card's edits.                                            *)
(***************************************************************************)
\* data with field f of row k set to v and nothing else touched: row k of the
\* transactions array, or the top level in the flat shape (k is of no account).
Patched(data, k, f, v) ==
    [hasArray |-> data.hasArray,
     transactions |->
        [j \in 1..Len(data.transactions) |->
            [g \in TxFields |->
                IF data.hasArray /\ j = k /\ g = f THEN v ELSE data.transactions[j][g]]],
     top |-> [g \in TxFields |-> IF ~data.hasArray /\ g = f THEN v ELSE data.top[g]],
     hasAccount |-> data.hasAccount,
     new_account |-> data.new_account]

Remaining(data) == {f \in TxFields : data.top[f] # "undefined"}

\* The data without its _new_account.
WithoutAccount(data) ==
    [data EXCEPT !.hasAccount = FALSE, !.new_account = [name |-> "undefined"]]

\* C21: the card shows the transactions array when the data has one; otherwise
\* it shows the top-level fields other than _new_account and transactions as
\* exactly one transaction when there is such a field and no transaction when
\* there is none; a _new_account never makes a row.
C21_Normalised ==
    /\ editedData.hasArray => getTransactions(editedData) = editedData.transactions
    /\ (~editedData.hasArray /\ Remaining(editedData) # {})
           => /\ Len(getTransactions(editedData)) = 1
              /\ \A f \in TxFields : getTransactions(editedData)[1][f] = editedData.top[f]
    /\ (~editedData.hasArray /\ Remaining(editedData) = {})
           => getTransactions(editedData) = <<>>
    /\ getTransactions(editedData) = getTransactions(WithoutAccount(editedData))

\* A CREATE_ACCOUNT card whose data is a _new_account and nothing else, its
\* name edited: the card shows no transaction.
C21_Witness ==
    /\ ~editedData.hasArray /\ editedData.hasAccount
    /\ Remaining(editedData) = {}
    /\ lastEdit.name = "s:b" /\ editedData.new_account.name = "s:b"
    /\ getTransactions(editedData) = <<>>

(***************************************************************************)
(* Pricing page: the list of assets, and handleRefresh, which keeps the    *)
(* asset being refreshed in the single state refreshingId.  An asset is    *)
(* its asset_code.                                                         *)
(***************************************************************************)
Assets == {"BTC", "ETH"}
PricingLists == {<<"BTC">>, <<"BTC", "ETH">>}    \* what GET /pricing/ answers
RefreshSlots == 1..MaxRefreshes

\* The asset cards on the page (the search box is left empty).
Listed == {pricing.list[k] : k \in 1..Len(pricing.list)}

\* disabled={refreshingId === item.asset_code}
RefreshDisabled(a) == pricing.refreshingId = a

\* The assets with a handleRefresh call in flight.
Refreshing == {pricing.calls[i].asset : i \in {j \in RefreshSlots : pricing.calls[j] # Idle}}

InitPricing ==
    /\ InboxParked /\ CardParked /\ FetcherParked
    /\ DashboardParked /\ SearchParked /\ FormParked
    /\ pricing = [list |-> <<>>, loading |-> TRUE, error |-> FALSE,
                  refreshingId |-> Null,
                  fetching |-> 1,                       \* the mount effect's fetchData()
                  calls |-> [i \in RefreshSlots |-> Idle]]

\* fetchData of the page (mount effect, header button, Retry) got its answer.
PricingFetched(data) ==
    /\ pricing.fetching > 0
    /\ pricing' = [pricing EXCEPT !.list = data, !.error = FALSE, !.loading = FALSE,
                                  !.fetching = @ - 1]
    /\ UNCHANGED <<inboxVars, cardVars, fetcherVars, dashboard, search, form>>

\* fetchData of the page failed.
PricingFetchFailed ==
    /\ pricing.fetching > 0
    /\ pricing' = [pricing EXCEPT !.error = TRUE, !.loading = FALSE, !.fetching = @ - 1]
    /\ UNCHANGED <<inboxVars, cardVars, fetcherVars, dashboard, search, form>>

\* The header button (disabled while loading) or Retry (shown with the error).
PricingReload ==
    /\ ~pricing.loading \/ pricing.error
    /\ pricing.fetching < MaxReloads
    /\ pricing' = [pricing EXCEPT !.fetching = @ + 1]
    /\ UNCHANGED <<inboxVars, cardVars, fetcherVars, dashboard, search, form>>

\* The refresh button of asset a: handleRefresh(a) up to its first await.
handleRefresh(i, a) ==
    /\ a \in Listed /\ ~RefreshDisabled(a)
    /\ pricing.calls[i] = Idle
    /\ \A j \in RefreshSlots : j < i => pricing.calls[j] # Idle
    /\ pricing' = [pricing EXCEPT !.refreshingId = a,
                                  !.calls[i] = [phase |-> "refresh", asset |-> a]]
    /\ UNCHANGED <<inboxVars, cardVars, fetcherVars, dashboard, search, form>>

\* refreshPrice resolved: handleRefresh goes on to await fetchData().
RefreshPosted(i) ==
    /\ pricing.calls[i] # Idle /\ pricing.calls[i].phase = "refresh"
    /\ pricing' = [pricing EXCEPT !.calls[i].phase = "fetch"]
    /\ UNCHANGED <<inboxVars, cardVars, fetcherVars, dashboard, search, form>>

\* refreshPrice threw: alert, then finally setRefreshingId(null).
RefreshFailed(i) ==
    /\ pricing.calls[i] # Idle /\ pricing.calls[i].phase = "refresh"
    /\ pricing' = [pricing EXCEPT !.refreshingId = Null, !.calls[i] = Idle]
    /\ UNCHANGED <<inboxVars, cardVars, fetcherVars, dashboard, search, form>>

\* The awaited fetchData() got its answer and returned: setRefreshingId(null).
RefreshFetched(i, data) ==
    /\ pricing.calls[i] # Idle /\ pricing.calls[i].phase = "fetch"
    /\ pricing' = [pricing EXCEPT !.list = data, !.error = FALSE, !.loading = FALSE,
                                  !.refreshingId = Null, !.calls[i] = Idle]
    /\ UNCHANGED <<inboxVars, cardVars, fetcherVars, dashboard, search, form>>

\* The awaited fetchData() caught a failure of its own and returned.
RefreshFetchFailed(i) ==
    /\ pricing.calls[i] # Idle /\ pricing.calls[i].phase = "fetch"
    /\ pricing' = [pricing EXCEPT !.error = TRUE, !.loading = FALSE,
                                  !.refreshingId = Null, !.calls[i] = Idle]
    /\ UNCHANGED <<inboxVars, cardVars, fetcherVars, dashboard, search, form>>

NextPricing ==
    \/ \E data \in PricingLists : PricingFetched(data)
    \/ PricingFetchFailed
    \/ PricingReload
    \/ \E i \in RefreshSlots : \E a \in Assets : handleRefresh(i, a)
    \/ \E i \in RefreshSlots : RefreshPosted(i)
    \/ \E i \in RefreshSlots : RefreshFailed(i)
    \/ \E i \in RefreshSlots : \E data \in PricingLists : RefreshFetched(i, data)
    \/ \E i \in RefreshSlots : RefreshFetchFailed(i)

SpecPricing == InitPricing /\ [][NextPricing]_vars

\* C22: while a refresh request for an asset is in flight, that asset's refresh
\* button is disabled, and refreshingId is null again once a request has
\* finished, whatever the interleaving of refreshes of different assets.
C22_RefreshingDisabled ==
    /\ [](\A a \in Refreshing : RefreshDisabled(a))
    /\ [][\A i \in RefreshSlots :
             (pricing.calls[i] # Idle /\ pricing'.calls[i] = Idle)
                 => pricing'.refreshingId = Null]_vars

(***************************************************************************)
(* Merchants and Transactions: the debounced search.  Every render with a  *)
(* new searchTerm runs the effect's cleanup, which clears the timer of the *)
(* render before, and arms a timer whose callback calls the fetchData of   *)
(* its own render.  A response is the rows for the q it was asked with.    *)
(***************************************************************************)
MerchantsDelay == 400
TransactionsDelay == 500
SearchPages == {"Merchants", "Transactions"}
SearchTerms == {"s:", "s:a", "s:ab"}        \* '' and what the user types
SearchSlots == 1..MaxSearches

Delay(page) == IF page = "Merchants" THEN MerchantsDelay ELSE TransactionsDelay

\* What GET /merchants/?q=... or /transactions/?q=... answers.
RowsFor(q) == <<"rows", q>>

\* setTimeout(() => fetchData(), delay) of the render with searchTerm term.
NewTimer(term) == [term |-> term, left |-> Delay(search.page)]

SearchIdle == \A i \in SearchSlots : search.requests[i] = Idle

InitSearch ==
    /\ InboxParked /\ CardParked /\ FetcherParked
    /\ DashboardParked /\ PricingParked /\ FormParked
    /\ \E page \in SearchPages :
          search = [page |-> page,
                    searchTerm |-> "s:",
                    list |-> <<>>,
                    loading |-> TRUE,
                    error |-> FALSE,
                    timers |-> {[term |-> "s:", left |-> Delay(page)]},   \* the mount effect
                    requests |-> [i \in SearchSlots |-> Idle],
                    stable |-> 0,           \* ghost: ms since searchTerm last changed
                    latestOk |-> FALSE]     \* ghost: the request issued last has succeeded

\* The search input changes: setSearchTerm, re-render, cleanup of the previous
\* effect (clearTimeout of its timer), the new effect.
Type(term) ==
    /\ term # search.searchTerm
    /\ search' = [search EXCEPT
                     !.searchTerm = term,
                     !.timers = {t \in @ : t.term # search.searchTerm} \cup {NewTimer(term)},
                     !.stable = 0]
    /\ UNCHANGED <<inboxVars, cardVars, fetcherVars, dashboard, pricing, form>>

Min(a, b) == IF a < b THEN a ELSE b
Max(a, b) == IF a > b THEN a ELSE b

\* Time passes.
TimePasses ==
    /\ \E t \in search.timers : t.left > 0
    /\ search' = [search EXCEPT
                     !.timers = {[t EXCEPT !.left = Max(0, @ - TickMs)] : t \in @},
                     !.stable = Min(@ + TickMs, Delay(search.page))]
    /\ UNCHANGED <<inboxVars, cardVars, fetcherVars, dashboard, pricing, form>>

\* A timer is due: its callback calls fetchData(), which sets loading and
\* sends the requests with the searchTerm of the timer's render.
TimerFires(i) ==
    /\ search.requests[i] = Idle
    /\ \A j \in SearchSlots : j < i => search.requests[j] # Idle
    /\ \E t \in search.timers :
          /\ t.left = 0
          /\ search' = [search EXCEPT
                           !.timers = @ \ {t},
                           !.loading = TRUE,
                           !.requests = [j \in SearchSlots |->
                               IF j = i THEN [phase |-> "sent", q |-> t.term, last |-> TRUE]
                               ELSE IF @[j] = Idle THEN Idle
                               ELSE [@[j] EXCEPT !.last = FALSE]],
                           !.latestOk = FALSE]
    /\ UNCHANGED <<inboxVars, cardVars, fetcherVars, dashboard, pricing, form>>

\* Promise.all resolved: setMerchants / setTransactions, then setLoading(false).
SearchResolve(i) ==
    /\ search.requests[i] # Idle
    /\ search' = [search EXCEPT
                     !.list = RowsFor(search.requests[i].q),
                     !.error = FALSE,
                     !.loading = FALSE,
                     !.requests[i] = Idle,
                     !.latestOk = IF search.requests[i].last THEN TRUE ELSE @]
    /\ UNCHANGED <<inboxVars, cardVars, fetcherVars, dashboard, pricing, form>>

\* A request threw: setError on Merchants, console.error on Transactions.
SearchCatch(i) ==
    /\ search.requests[i] # Idle
    /\ search' = [search EXCEPT
                     !.error = IF search.page = "Merchants" THEN TRUE ELSE @,
                     !.loading = FALSE,
                     !.requests[i] = Idle]
    /\ UNCHANGED <<inboxVars, cardVars, fetcherVars, dashboard, pricing, form>>

NextSearch ==
    \/ \E term \in SearchTerms : Type(term)
    \/ TimePasses
    \/ \E i \in SearchSlots : TimerFires(i)
    \/ \E i \in SearchSlots : SearchResolve(i)
    \/ \E i \in SearchSlots : SearchCatch(i)

SpecSearch == InitSearch /\ [][NextSearch]_vars

\* C23: a change of the search term cancels the pending timer, so at most one
\* timer is pending; a fetch is issued only for the current term and only after
\* it stayed unchanged for the whole delay (400 ms on Merchants, 500 ms on
\* Transactions).
C23_Debounce ==
    /\ [](Cardinality(search.timers) <= 1)
    /\ [](\A t \in search.timers : t.term = search.searchTerm)
    /\ [][\A i \in SearchSlots :
             (search.requests[i] = Idle /\ search'.requests[i] # Idle)
                 => /\ search'.requests[i].q = search.searchTerm
                    /\ search.stable >= Delay(search.page)]_vars

\* C23: once every request has completed (no timer pending, the request issued
\* last answered successfully), the displayed list is the result for the most
\* recent search term, whatever the order of the responses.
C23_LatestTermShown ==
    (SearchIdle /\ search.timers = {} /\ search.latestOk)
        => search.list = RowsFor(search.searchTerm)

\* C23 as a whole.
C23_DebouncedSearch ==
    /\ C23_Debounce
    /\ []C23_LatestTermShown

(***************************************************************************)
(* Accounts, Merchants and Transactions: the create/edit modal and its     *)
(* handleSubmit.  Values are the tagged strings of the ProposalCard part.  *)
(* Of the Accounts form the fields id, name, type, current_balance and     *)
(* description are modelled; sub_type and currency behave as description.  *)
(***************************************************************************)
FormPages == {"Accounts", "Merchants", "Transactions"}
AccountType == {"ASSET", "LIABILITY"}
TransactionType == {"INCOME", "EXPENSE", "TRANSFER"}
IsoDate == "s:2026-01-02T00:00:00.000Z"
DayDate == "s:2026-01-02"

\* A value that counts as false in v || d and in if (v).
Falsy(v) == v \in {"s:", "n:0", "null", "undefined", "NaN"}

\* v || d
OrElse(v, d) == IF Falsy(v) THEN d ELSE v

\* parseFloat(v) of the value of an <input type="number">
parseFloat(v) ==
    CASE v = "s:5" -> "n:5"
      [] v = "s:7" -> "n:7"
      [] OTHER -> "NaN"

\* new Date(day).toISOString()
toISOString(day) == IF day = DayDate THEN IsoDate ELSE "RangeError"

\* iso.split('T')[0]
DayOf(iso) == IF iso = IsoDate THEN DayDate ELSE iso

\* The rows of the page's list, as the backend returned them.
AccountRows ==
    [id : {"s:a1"}, name : {"s:n"}, type : AccountType, current_balance : {"n:5"},
     description : {"null", "s:d"}]
MerchantRows ==
    [id : {"s:m1"}, name : {"s:n"}, default_category_id : {"null", "s:c1"}]
TransactionRows ==
    {r \in [id : {"s:t1"}, account_id : {"s:a1"}, target_account_id : {"null", "s:a2"},
            category_id : {"null", "s:c1"}, amount : {"n:5"}, type : TransactionType,
            transaction_date : {IsoDate},
            note : {"null", "s:Internal ledger entry", "s:n"},
            merchant : {"null", "s:m"}] :
        /\ (r.target_account_id # "null") = (r.type = "TRANSFER")
        /\ (r.merchant # "null") = (r.type = "EXPENSE")}

ListRows(page) ==
    CASE page = "Accounts" -> AccountRows
      [] page = "Merchants" -> MerchantRows
      [] OTHER -> TransactionRows

AllRows == AccountRows \cup MerchantRows \cup TransactionRows

\* The accounts the Transactions page has fetched: none yet, or two.
FetchedAccounts == {<<>>, <<"s:a1", "s:a2">>}

\* useState initial value of formData, and what openCreateModal sets.
EmptyForm(page, accs) ==
    CASE page = "Accounts" ->
            [id |-> "s:", name |-> "s:", type |-> "ASSET", current_balance |-> "n:0",
             description |-> "s:"]
      [] page = "Merchants" ->
            [id |-> "s:", name |-> "s:", default_category_id |-> "s:"]
      [] OTHER ->
            [id |-> "s:", account_id |-> IF Len(accs) > 0 THEN accs[1] ELSE "s:",
             category_id |-> "s:", amount |-> "n:0", type |-> "EXPENSE",
             target_account_id |-> "s:", transaction_date |-> DayDate,
             merchant |-> "s:", note |-> "s:"]

\* What openEditModal(row) sets.
EditForm(page, row) ==
    CASE page = "Accounts" ->
            [id |-> row.id, name |-> row.name, type |-> row.type,
             current_balance |-> row.current_balance,
             description |-> OrElse(row.description, "s:")]
      [] page = "Merchants" ->
            [id |-> row.id, name |-> row.name,
             default_category_id |-> OrElse(row.default_category_id, "s:")]
      [] OTHER ->
            [id |-> row.id, account_id |-> row.account_id,
             category_id |-> OrElse(row.category_id, "s:"),
             amount |-> row.amount, type |-> row.type,
             target_account_id |-> OrElse(row.target_account_id, "s:"),
             transaction_date |-> DayOf(row.transaction_date),
             merchant |-> OrElse(row.merchant, "s:"),
             note |-> IF row.note = "s:Internal ledger entry" THEN "s:"
                      ELSE OrElse(row.note, "s:")]

\* The inputs of the modal: <<field, new value of the field>>.
FormInputs ==
    CASE form.page = "Accounts" ->
            ({"name"} \X {"s:n"})
            \cup ({"type"} \X AccountType)
            \cup {<<"current_balance", OrElse(parseFloat(v), "n:0")>> : v \in {"s:", "s:7"}}
            \cup ({"description"} \X {"s:", "s:d"})
      [] form.page = "Merchants" ->
            ({"name"} \X {"s:n"}) \cup ({"default_category_id"} \X {"s:", "s:c1"})
      [] OTHER ->
            ({"merchant"} \X {"s:", "s:m"})
            \cup {<<"amount", OrElse(parseFloat(v), "n:0")>> : v \in {"s:", "s:7"}}
            \cup {<<"account_id", form.accounts[k]>> : k \in 1..Len(form.accounts)}
            \cup ({"category_id"} \X {"s:", "s:c1"})
            \cup ({"type"} \X TransactionType)
            \cup {<<"target_account_id", form.accounts[k]>> :
                     k \in {j \in 1..Len(form.accounts) :
                               /\ form.formData.type = "TRANSFER"
                               /\ form.accounts[j] # form.formData.account_id}}
            \cup ({"note"} \X {"s:", "s:n"})

\* JSON.stringify of an object of numbers, strings and nulls.
Stringify(payload) == [f \in DOMAIN payload |-> JsonValue(payload[f])]

AccountPayload_WithId(formData) == formData    \* mutant: formData sent whole

\* Accounts.handleSubmit: const { id, ...payload } = formData
AccountPayload(formData) ==
    [f \in DOMAIN formData \ {"id"} |-> formData[f]]

\* Merchants.handleSubmit: the object literal of both branches.
MerchantPayload(formData) ==
    [name |-> formData.name,
     default_category_id |-> OrElse(formData.default_category_id, Null)]

TransactionPayload_AnyTarget(formData) ==      \* mutant: the target whatever the type
    [account_id |-> formData.account_id,
     category_id |-> OrElse(formData.category_id, Null),
     amount |-> Number(formData.amount),
     type |-> formData.type,
     target_account_id |-> OrElse(formData.target_account_id, Null),
     transaction_date |-> toISOString(formData.transaction_date),
     merchant |-> OrElse(formData.merchant, Null),
     note |-> OrElse(formData.note, Null)]

\* Transactions.handleSubmit: const payload = { ... }
TransactionPayload(formData) ==
    [account_id |-> formData.account_id,
     category_id |-> OrElse(formData.category_id, Null),
     amount |-> Number(formData.amount),
     type |-> formData.type,
     target_account_id |-> IF formData.type = "TRANSFER"
                           THEN OrElse(formData.target_account_id, Null) ELSE Null,
     transaction_date |-> toISOString(formData.transaction_date),
     merchant |-> OrElse(formData.merchant, Null),
     note |-> OrElse(formData.note, Null)]

Collection(page) ==
    CASE page = "Accounts" -> "/accounts/"
      [] page = "Merchants" -> "/merchants/"
      [] OTHER -> "/transactions/"

\* apiService.update*(id, data) when formData.id is set, apiService.create*(data)
\* when it is not: the call of fetcher.
SubmitRequest(page, id, payload) ==
    IF ~Falsy(id)
    THEN [method |-> "PATCH", path |-> <<Collection(page), id>>,
          body |-> Stringify(payload), phase |-> "sent"]
    ELSE [method |-> "POST", path |-> <<Collection(page)>>,
          body |-> Stringify(payload), phase |-> "sent"]

InitForm ==
    /\ InboxParked /\ CardParked /\ FetcherParked
    /\ DashboardParked /\ PricingParked /\ SearchParked
    /\ \E page \in FormPages : \E accs \in FetchedAccounts :
          /\ page # "Transactions" => accs = <<>>
          /\ form = [page |-> page,
                     accounts |-> accs,
                     formData |-> EmptyForm(page, <<>>),
                     isModalOpen |-> FALSE,
                     submitting |-> FALSE,
                     error |-> Null,
                     requests |-> <<>>,       \* create/update requests in flight
                     refetches |-> 0,         \* fetchData() calls of handleSubmit in flight
                     editsInFlight |-> 0]

\* The New button (behind the modal while it is open).  Accounts does not
\* touch error.
openCreateModal ==
    /\ ~form.isModalOpen
    /\ form.requests # <<>> => form.editsInFlight < MaxEditsInFlight
    /\ form' = [form EXCEPT !.formData = EmptyForm(form.page, form.accounts),
                            !.isModalOpen = TRUE,
                            !.editsInFlight = IF form.requests # <<>> THEN @ + 1 ELSE @,
                            !.error = IF form.page = "Accounts" THEN @ ELSE Null]
    /\ UNCHANGED <<inboxVars, cardVars, fetcherVars, dashboard, pricing, search>>

\* The edit button of a row.
openEditModal(row) ==
    /\ ~form.isModalOpen
    /\ row \in ListRows(form.page)
    /\ form.requests # <<>> => form.editsInFlight < MaxEditsInFlight
    /\ form' = [form EXCEPT !.formData = EditForm(form.page, row),
                            !.isModalOpen = TRUE,
                            !.editsInFlight = IF form.requests # <<>> THEN @ + 1 ELSE @,
                            !.error = IF form.page = "Accounts" THEN @ ELSE Null]
    /\ UNCHANGED <<inboxVars, cardVars, fetcherVars, dashboard, pricing, search>>

\* Cancel / Discard / X: setIsModalOpen(false).
CloseModal ==
    /\ form.isModalOpen
    /\ form' = [form EXCEPT !.isModalOpen = FALSE]
    /\ UNCHANGED <<inboxVars, cardVars, fetcherVars, dashboard, pricing, search>>

\* onChange of an input: setFormData({ ...formData, [field]: value }).
FormInput(field, value) ==
    /\ form.isModalOpen
    /\ <<field, value>> \in FormInputs
    /\ form.formData[field] # value
    /\ form.requests # <<>> => form.editsInFlight < MaxEditsInFlight
    /\ form' = [form EXCEPT !.formData[field] = value,
                            !.editsInFlight = IF form.requests # <<>> THEN @ + 1 ELSE @]
    /\ UNCHANGED <<inboxVars, cardVars, fetcherVars, dashboard, pricing, search>>

\* The submit button is rendered inside the open modal and is disabled while
\* submitting; a disabled default button also blocks submission by Enter.
CanSubmit == form.isModalOpen /\ ~form.submitting /\ Len(form.requests) < MaxSubmits

\* Accounts.handleSubmit up to its await.
handleSubmitAccount ==
    /\ form.page = "Accounts" /\ CanSubmit
    /\ form' = [form EXCEPT
                   !.submitting = TRUE,
                   !.requests = Append(@, SubmitRequest(form.page, form.formData.id,
                                                        AccountPayload(form.formData)))]
    /\ UNCHANGED <<inboxVars, cardVars, fetcherVars, dashboard, pricing, search>>

\* Merchants.handleSubmit up to its await.
handleSubmitMerchant ==
    /\ form.page = "Merchants" /\ CanSubmit
    /\ form' = [form EXCEPT
                   !.submitting = TRUE,
                   !.error = Null,
                   !.requests = Append(@, SubmitRequest(form.page, form.formData.id,
                                                        MerchantPayload(form.formData)))]
    /\ UNCHANGED <<inboxVars, cardVars, fetcherVars, dashboard, pricing, search>>

\* Transactions.handleSubmit up to its return or its await.
handleSubmitTransaction ==
    /\ form.page = "Transactions" /\ CanSubmit
    /\ IF Falsy(form.formData.account_id)
       THEN form' = [form EXCEPT !.error = "s:Please select an account"]
       ELSE form' = [form EXCEPT
                        !.submitting = TRUE,
                        !.error = Null,
                        !.requests = Append(@, SubmitRequest(form.page, form.formData.id,
                                               TransactionPayload(form.formData)))]
    /\ UNCHANGED <<inboxVars, cardVars, fetcherVars, dashboard, pricing, search>>

\* The backend answers the oldest request, or the request is lost.
SubmitAnswered(ok) ==
    /\ form.requests # <<>> /\ form.requests[1].phase = "sent"
    /\ form' = [form EXCEPT !.requests[1].phase = IF ok THEN "ok" ELSE "failed"]
    /\ UNCHANGED <<inboxVars, cardVars, fetcherVars, dashboard, pricing, search>>

\* handleSubmit after its await: setIsModalOpen(false), fetchData(), finally.
SubmitResolve ==
    /\ form.requests # <<>> /\ form.requests[1].phase = "ok"
    /\ form.refetches < MaxRefetches
    /\ form' = [form EXCEPT !.isModalOpen = FALSE,
                            !.refetches = @ + 1,
                            !.submitting = FALSE,
                            !.requests = Tail(@),
                            !.editsInFlight = 0]
    /\ UNCHANGED <<inboxVars, cardVars, fetcherVars, dashboard, pricing, search>>

\* handleSubmit's catch and finally: alert on Accounts, setError elsewhere.
SubmitCatch(message) ==
    /\ form.requests # <<>> /\ form.requests[1].phase = "failed"
    /\ form' = [form EXCEPT
                   !.error = IF form.page = "Accounts" THEN @
                             ELSE OrElse(message, "s:Operation failed"),
                   !.submitting = FALSE,
                   !.requests = Tail(@),
                   !.editsInFlight = 0]
    /\ UNCHANGED <<inboxVars, cardVars, fetcherVars, dashboard, pricing, search>>

\* The fetchData() that handleSubmit called has completed.
FormFetched ==
    /\ form.refetches > 0
    /\ form' = [form EXCEPT !.refetches = @ - 1]
    /\ UNCHANGED <<inboxVars, cardVars, fetcherVars, dashboard, pricing, search>>

FormFields == {"name", "type", "current_balance", "description", "default_category_id",
               "merchant", "amount", "account_id", "category_id", "target_account_id",
               "note"}
FormValues == {"s:", "s:n", "s:d", "s:c1", "s:m", "s:a1", "s:a2", "n:0", "n:7"}
                  \cup AccountType \cup TransactionType
SubmitErrors == {"s:", "s:Unprocessable"}

NextForm ==
    \/ openCreateModal
    \/ \E row \in AllRows : openEditModal(row)
    \/ CloseModal
    \/ \E field \in FormFields : \E value \in FormValues : FormInput(field, value)
    \/ handleSubmitAccount
    \/ handleSubmitMerchant
    \/ handleSubmitTransaction
    \/ \E ok \in BOOLEAN : SubmitAnswered(ok)
    \/ SubmitResolve
    \/ \E message \in SubmitErrors : SubmitCatch(message)
    \/ FormFetched

SpecForm == InitForm /\ [][NextForm]_vars

\* A step in which handleSubmit sends a request.
Sends == Len(form'.requests) > Len(form.requests)

\* The request sent by the step.
Sent == form'.requests[Len(form'.requests)]

\* A step in which the request in flight completes, with success or without.
Completes == form.requests # <<>> /\ form'.requests = Tail(form.requests)

\* The request goes to the id of the form when there is one (PATCH), and to the
\* collection when there is none (POST).
DispatchedById ==
    IF form.formData.id # "s:"
    THEN Sent.method = "PATCH" /\ Sent.path = <<Collection(form.page), form.formData.id>>
    ELSE Sent.method = "POST" /\ Sent.path = <<Collection(form.page)>>

\* The modal closes and the list is fetched again when the request succeeded,
\* and neither happens when it failed; submitting is reset in both cases.
CompletionRule ==
    /\ ~form'.submitting
    /\ IF form.requests[1].phase = "ok"
       THEN ~form'.isModalOpen /\ form'.refetches = form.refetches + 1
       ELSE /\ form'.isModalOpen = form.isModalOpen
            /\ form'.refetches = form.refetches
            /\ form.requests[1].phase = "failed"

\* C24: the Transaction form.  Submitted without an account, it sends nothing
\* and shows an error; otherwise it sends exactly one request, a PATCH of the
\* form's id or a POST when the id is empty, whose target_account_id is non-null
\* only for a TRANSFER, whose category, merchant and note are null when empty
\* and whose amount is a number; the modal closes and the list is fetched again
\* only on success, and submitting is reset on success and on failure.
C24_TransactionSubmit ==
    /\ [][(handleSubmitTransaction /\ form.formData.account_id = "s:")
             => /\ form'.requests = form.requests
                /\ form'.error = "s:Please select an account"
                /\ ~form'.submitting]_vars
    /\ [][(form.page = "Transactions" /\ Sends)
             => /\ Len(form'.requests) = Len(form.requests) + 1
                /\ form.requests = <<>>
                /\ form.formData.account_id # "s:"
                /\ DispatchedById
                /\ Sent.body.account_id = form.formData.account_id
                /\ Sent.body.target_account_id # "null" => form.formData.type = "TRANSFER"
                /\ \A f \in {"category_id", "merchant", "note"} :
                      Sent.body[f] = IF form.formData[f] = "s:" THEN "null"
                                     ELSE form.formData[f]
                /\ Sent.body.amount \in Numbers
                /\ form'.isModalOpen /\ form'.refetches = form.refetches]_vars
    /\ [][(form.page = "Transactions" /\ Completes) => CompletionRule]_vars
    /\ [][(form.page = "Transactions" /\ form'.refetches > form.refetches)
             => (Completes /\ form.requests[1].phase = "ok")]_vars
    /\ [](form.page = "Transactions" => (form.submitting <=> form.requests # <<>>))

\* An EXPENSE whose form still holds the target account of the TRANSFER it was
\* is being updated: one PATCH of its id is in flight, its target_account_id null.
C24_Witness ==
    /\ form.page = "Transactions" /\ form.submitting
    /\ Len(form.requests) = 1
    /\ form.requests[1].method = "PATCH"
    /\ form.requests[1].path = <<"/transactions/", "s:t1">>
    /\ form.requests[1].body.target_account_id = "null"
    /\ form.requests[1].body.type = "EXPENSE"
    /\ form.requests[1].body.amount = "n:7"
    /\ form.formData.target_account_id = "s:a2"
    /\ form.formData.type = "EXPENSE"

\* C25: the Account and Merchant forms.  A form with an id sends exactly one
\* PATCH to that id and no POST, a form without one exactly one POST; the id is
\* not in the body; the modal closes and the list is fetched again only when
\* the request succeeded; and no submit starts while one is in flight, which is
\* while submitting is true.
C25_FormDispatch ==
    /\ [][(form.page # "Transactions" /\ Sends)
             => /\ Len(form'.requests) = Len(form.requests) + 1
                /\ form.requests = <<>> /\ ~form.submitting
                /\ DispatchedById
                /\ "id" \notin DOMAIN Sent.body
                /\ Sent.body.name = form.formData.name
                /\ form'.isModalOpen /\ form'.refetches = form.refetches]_vars
    /\ [][(form.page # "Transactions" /\ Completes) => CompletionRule]_vars
    /\ [][(form.page # "Transactions" /\ form'.refetches > form.refetches)
             => (Completes /\ form.requests[1].phase = "ok")]_vars
    /\ [](form.page # "Transactions"
             => /\ form.submitting <=> form.requests # <<>>
                /\ Len(form.requests) <= 1)

\* An account is being updated: one PATCH of its id is in flight, the id not in
\* its body, and the form is submitting.
C25_Witness ==
    /\ form.page = "Accounts" /\ form.submitting
    /\ Len(form.requests) = 1
    /\ form.requests[1].method = "PATCH"
    /\ form.requests[1].path = <<"/accounts/", "s:a1">>
    /\ DOMAIN form.requests[1].body = {"name", "type", "current_balance", "description"}
    /\ form.requests[1].body.current_balance = "n:7"

====
